---------------------------- MODULE Spec2Model ----------------------------
(***************************************************************************)
(* Model of the sandboxed command terminal of src/app.py: path confinement *)
(* (safe_path), the built-in commands of run_whitelisted_command working   *)
(* on a sandbox directory tree, the trash (_move_to_trash,                 *)
(* _restore_from_trash) and the native-process supervisor                  *)
(* (_spawn_and_wait, api_kill).                                            *)
(*                                                                         *)
(* A Python str is a sequence of one-character strings, so that prefix     *)
(* tests, splitting at "/" and stem/suffix arithmetic are computed the way *)
(* the code computes them.  A pathlib.Path is the sequence of its          *)
(* components below "/" (the host is POSIX and holds no symbolic links).   *)
(***************************************************************************)
EXTENDS Integers, Sequences, FiniteSets, TLC

VARIABLES
    rp,         \* one call of safe_path: its arguments and the path returned
    fs,         \* the host's directory tree: absolute path -> node
    CURRENT_DIR,\* app.py:31, the engine-wide working directory
    res,        \* the result dictionary returned by the last command
    hist,       \* the commands run so far, each with the tree and directory it started from
    spawned,    \* the argument vectors handed to _spawn_and_wait so far
    pc,         \* where each thread stands in _spawn_and_wait or api_kill
    PROCESS_LOCK,    \* app.py:35, the thread holding the lock
    CURRENT_PROCESS, \* app.py:36, the tracked process
    procs,      \* the native processes launched so far, by pid
    proc,       \* app.py:195, the local variable proc of each _spawn_and_wait call
    ret,        \* what each thread's last _spawn_and_wait call returned
    cancel,     \* the last api_kill call: what it found, signalled and returned
    req         \* the requests that run concurrently: where each stands, and its locals

---------------------------------------------------------------------------
(* String literals. *)

\* the names of the files and directories of the trees
Names ==
  [ srv |-> <<"s", "r", "v">>,
    sandbox |-> <<"s", "a", "n", "d", "b", "o", "x">>,
    sandbox2 |-> <<"s", "a", "n", "d", "b", "o", "x", "2">>,
    trash |-> <<".", "t", "r", "a", "s", "h">>,
    dotdot |-> <<".", ".">>,
    dot |-> <<".">>,
    a |-> <<"a">>,
    b |-> <<"b">>,
    etc |-> <<"e", "t", "c">>,
    passwd |-> <<"p", "a", "s", "s", "w", "d">>,
    ftxt |-> <<"f", ".", "t", "x", "t">>,
    f1txt |-> <<"f", "_", "1", ".", "t", "x", "t">>,
    g |-> <<"g">>,
    restored |-> <<"_", "r", "e", "s", "t", "o", "r", "e", "d", "_">>,
    empty |-> <<>> ]

\* app.py:27  ROOT = Path.cwd() / "sandbox"; the server is started in /srv
ROOT == <<Names.srv, Names.sandbox>>

\* app.py:168, 260, 556  ROOT / ".trash"
TRASH == ROOT \o <<Names.trash>>

---------------------------------------------------------------------------
(* str and pathlib, as far as the program uses them. *)

\* str.startswith
startswith(s, prefix) ==
    /\ Len(prefix) <= Len(s)
    /\ SubSeq(s, 1, Len(prefix)) = prefix

\* str.split("/"): every segment, the empty ones included
RECURSIVE Segments(_)
Segments(s) ==
    IF s = <<>> THEN << <<>> >>
    ELSE LET rest == Segments(Tail(s))
         IN  IF Head(s) = "/" THEN << <<>> >> \o rest
             ELSE << <<Head(s)>> \o Head(rest) >> \o Tail(rest)

\* Path(s).parts without the anchor: empty and "." segments are dropped, ".." is kept
PathParts(s) == SelectSeq(Segments(s), LAMBDA g : g # <<>> /\ g # Names.dot)

\* Path(s).is_absolute()
is_absolute(s) == Len(s) > 0 /\ s[1] = "/"

\* Path(s).name: the last component ("" for "", "." and "/"; ".." for "..")
name_of(s) == LET p == PathParts(s) IN IF p = <<>> THEN <<>> ELSE p[Len(p)]

\* Path.resolve() on a tree without symbolic links: ".." drops the component
\* before it and stays at "/" when there is none
RECURSIVE Normalize(_, _)
Normalize(acc, parts) ==
    IF parts = <<>> THEN acc
    ELSE LET h == Head(parts)
         IN  Normalize(IF h = Names.dotdot
                       THEN (IF acc = <<>> THEN acc ELSE SubSeq(acc, 1, Len(acc) - 1))
                       ELSE Append(acc, h),
                       Tail(parts))

resolve(parts) == Normalize(<<>>, parts)

\* str(path) of an absolute path
RECURSIVE PathStr(_)
PathStr(p) ==
    IF p = <<>> THEN <<"/">>
    ELSE IF Len(p) = 1 THEN <<"/">> \o p[1]
    ELSE PathStr(SubSeq(p, 1, Len(p) - 1)) \o <<"/">> \o p[Len(p)]

\* path.parent
parent(p) == IF p = <<>> THEN p ELSE SubSeq(p, 1, Len(p) - 1)

\* q is p or lies below p
IsUnder(q, p) == Len(q) >= Len(p) /\ SubSeq(q, 1, Len(p)) = p

\* the path is SandboxRoot or a descendant of it
InSandbox(p) == IsUnder(p, ROOT)

\* app.py:62  the confinement test: a prefix test on the two path strings
escapes_root(candidate) == ~ startswith(PathStr(candidate), PathStr(resolve(ROOT)))

\* app.py:50-66
safe_path(path_str, base_dir) ==
    LET base == resolve(base_dir)
        p == PathParts(path_str)
        candidate == IF is_absolute(path_str)
                     THEN resolve(ROOT \o p)
                     ELSE resolve(base \o p)
    IN  IF escapes_root(candidate)
        THEN resolve(ROOT \o PathParts(name_of(path_str)))
        ELSE candidate

\* one call of safe_path with its result; n counts the segments of path_str
IdleCall == [path_str |-> <<>>, base_dir |-> ROOT, n |-> 0, out |-> ROOT]

Call(path_str, base_dir, n) ==
    [path_str |-> path_str, base_dir |-> base_dir, n |-> n,
     out |-> safe_path(path_str, base_dir)]

---------------------------------------------------------------------------
(* The directory tree.  fs maps every existing absolute path except "/"    *)
(* to its node; "/" always exists and is a directory.  A file's data is    *)
(* its text.  Every call below returns [ok, fs]: whether the call returned *)
(* without raising, and the tree it leaves.                                *)

DirNode == [kind |-> "dir", data |-> <<>>]
FileNode(data) == [kind |-> "file", data |-> data]

exists(f, p) == p = <<>> \/ p \in DOMAIN f
is_dir(f, p) == p = <<>> \/ (p \in DOMAIN f /\ f[p].kind = "dir")
is_file(f, p) == p \in DOMAIN f /\ f[p].kind = "file"

Raised(f) == [ok |-> FALSE, fs |-> f]
Returned(f) == [ok |-> TRUE, fs |-> f]

Put(f, p, node) == [q \in DOMAIN f \cup {p} |-> IF q = p THEN node ELSE f[q]]

Under(f, p) == {q \in DOMAIN f : IsUnder(q, p)}

Without(f, p) == [q \in DOMAIN f \ Under(f, p) |-> f[q]]

\* the path q of the subtree at src, seen below dst instead
Rebase(q, src, dst) == dst \o SubSeq(q, Len(src) + 1, Len(q))

\* the subtree at src moved to dst (whatever was at dst is replaced)
Graft(f, src, dst) ==
    LET moved == Under(f, src)
        base == Without(Without(f, dst), src)
        new == {Rebase(q, src, dst) : q \in moved}
    IN  [q \in DOMAIN base \cup new |->
            IF q \in new THEN f[Rebase(q, dst, src)] ELSE base[q]]

\* os.mkdir
os_mkdir(f, p) ==
    IF exists(f, p) \/ ~ is_dir(f, parent(p)) THEN Raised(f)
    ELSE Returned(Put(f, p, DirNode))

\* Path.mkdir(exist_ok=True)
mkdir_exist_ok(f, p) == IF is_dir(f, p) THEN Returned(f) ELSE os_mkdir(f, p)

\* Path.mkdir(parents=True, exist_ok=True), os.makedirs(exist_ok=True)
RECURSIVE mkdir_parents(_, _)
mkdir_parents(f, p) ==
    IF is_dir(f, p) THEN Returned(f)
    ELSE IF exists(f, p) THEN Raised(f)
    ELSE LET up == mkdir_parents(f, parent(p))
         IN  IF up.ok THEN Returned(Put(up.fs, p, DirNode)) ELSE Raised(f)

\* Path.write_text: open(p, "w") and write
write_text(f, p, data) ==
    IF is_dir(f, p) \/ ~ is_dir(f, parent(p)) THEN Raised(f)
    ELSE Returned(Put(f, p, FileNode(data)))

\* open(p, "a") and write
append_text(f, p, data) ==
    IF is_dir(f, p) \/ ~ is_dir(f, parent(p)) THEN Raised(f)
    ELSE Returned(Put(f, p, FileNode((IF is_file(f, p) THEN f[p].data ELSE <<>>) \o data)))

\* text read with universal newlines (open(p, "r"), newline=None): "\r\n" and a
\* lone "\r" are read as "\n"
RECURSIVE universal_newlines(_)
universal_newlines(data) ==
    IF data = <<>> THEN <<>>
    ELSE IF Head(data) = "\r"
    THEN <<"\n">> \o universal_newlines(IF Len(data) > 1 /\ data[2] = "\n"
                                        THEN Tail(Tail(data)) ELSE Tail(data))
    ELSE <<Head(data)>> \o universal_newlines(Tail(data))

\* Path.read_text(encoding="utf8")
read_text(f, p) == universal_newlines(f[p].data)

\* Path.unlink, os.unlink
os_unlink(f, p) == IF is_file(f, p) THEN Returned(Without(f, p)) ELSE Raised(f)

\* shutil.rmtree
rmtree(f, p) ==
    IF p # <<>> /\ is_dir(f, p) THEN Returned(Without(f, p)) ELSE Raised(f)

\* os.rename, os.replace, Path.replace: rename(2) within one filesystem
os_rename(f, src, dst) ==
    IF src = <<>> \/ dst = <<>> \/ ~ exists(f, src) THEN Raised(f)
    ELSE IF ~ is_dir(f, parent(dst)) THEN Raised(f)
    ELSE IF src = dst THEN Returned(f)
    ELSE IF IsUnder(dst, src) THEN Raised(f)                       \* EINVAL
    ELSE IF IsUnder(src, dst) THEN Raised(f)                       \* ENOTEMPTY / ENOTDIR
    ELSE IF exists(f, dst) /\ is_dir(f, src) /\ ~ (is_dir(f, dst) /\ Under(f, dst) = {dst}) THEN Raised(f)
    ELSE IF exists(f, dst) /\ is_file(f, src) /\ is_dir(f, dst) THEN Raised(f)
    ELSE Returned(Graft(f, src, dst))

\* shutil.copy2 with a file source: dst names the file, or the directory to copy into
copy2(f, src, dst) ==
    LET final == IF is_dir(f, dst) THEN dst \o <<src[Len(src)]>> ELSE dst
    IN  IF ~ is_file(f, src) THEN Raised(f)
        ELSE IF src = final THEN Raised(f)                         \* SameFileError
        ELSE write_text(f, final, f[src].data)

\* shutil.copytree(src, dst): os.makedirs(dst) must create dst, then the entries
\* found under src before dst was made are copied
copytree(f, src, dst) ==
    IF ~ is_dir(f, src) \/ exists(f, dst) THEN Raised(f)
    ELSE LET made == mkdir_parents(f, dst)
             new == {Rebase(q, src, dst) : q \in Under(f, src)}
         IN  IF ~ made.ok THEN Raised(f)
             ELSE Returned([q \in DOMAIN made.fs \cup new |->
                              IF q \in new THEN f[Rebase(q, dst, src)] ELSE made.fs[q]])

\* shutil.move
shutil_move(f, src, dst) ==
    LET into == is_dir(f, dst) /\ src # dst
        real_dst == IF into THEN dst \o <<src[Len(src)]>> ELSE dst
        renamed == os_rename(f, src, real_dst)
    IN  IF src = <<>> THEN Raised(f)
        ELSE IF into /\ exists(f, real_dst) THEN Raised(f)
        ELSE IF renamed.ok THEN renamed
        ELSE IF is_dir(f, src)
             THEN IF IsUnder(real_dst, src) THEN Raised(f)
                  ELSE LET copied == copytree(f, src, real_dst)
                       IN  IF copied.ok THEN rmtree(copied.fs, src) ELSE Raised(f)
        ELSE LET copied == copy2(f, src, real_dst)
             IN  IF copied.ok THEN os_unlink(copied.fs, src) ELSE Raised(f)

---------------------------------------------------------------------------
(* Command lines.  A command arrives as the token list shlex.split made of *)
(* it (parts); a result is the dictionary the command returns.  A message  *)
(* is its format (id) and the values formatted into it (args).             *)

\* first tokens of command lines: verbs of the allow-set in lower and mixed case,
\* and verbs outside it
Verbs ==
  [ cd |-> <<"c", "d">>,
    write |-> <<"w", "r", "i", "t", "e">>,
    append |-> <<"a", "p", "p", "e", "n", "d">>,
    rm |-> <<"r", "m">>,
    RM |-> <<"R", "M">>,
    mv |-> <<"m", "v">>,
    cp |-> <<"c", "p">>,
    restore |-> <<"r", "e", "s", "t", "o", "r", "e">>,
    empty_trash |-> <<"e", "m", "p", "t", "y", "-", "t", "r", "a", "s", "h">>,
    LS |-> <<"L", "S">>,
    echo |-> <<"e", "c", "h", "o">>,
    sudo |-> <<"s", "u", "d", "o">>,
    Bash |-> <<"B", "a", "s", "h">>,
    read |-> <<"r", "e", "a", "d">>,
    cat |-> <<"c", "a", "t">>,
    type |-> <<"t", "y", "p", "e">>,
    tail |-> <<"t", "a", "i", "l">> ]

\* the flags of rm, and the texts written and appended
Words ==
  [ r |-> <<"-", "r">>,
    R |-> <<"-", "R">>,
    recursive |-> <<"-", "-", "r", "e", "c", "u", "r", "s", "i", "v", "e">>,
    permanent |-> <<"-", "-", "p", "e", "r", "m", "a", "n", "e", "n", "t">>,
    perma |-> <<"-", "-", "p", "e", "r", "m", "a">>,
    yes |-> <<"-", "-", "y", "e", "s", "-", "i", "-", "k", "n", "o", "w">>,
    h |-> <<"h">>,
    w |-> <<"w">>,
    cr |-> <<"c", "\r", "d">>,
    crlf |-> <<"c", "\r", "\n", "d">>,
    n |-> <<"-", "n">>,
    three |-> <<"1", "\n", "2", "\n", "3">>,
    two |-> <<"1", "\n", "2", "\n">>,
    blank |-> <<"1", "\n", "\n", "2", "\f", "3">> ]

\* app.py:39-44
WHITELIST ==
  { <<"l", "s">>, <<"d", "i", "r">>, <<"p", "w", "d">>, <<"c", "a", "t">>,
    <<"t", "y", "p", "e">>, <<"r", "e", "a", "d">>, <<"e", "c", "h", "o">>,
    <<"m", "k", "d", "i", "r">>, <<"r", "m", "d", "i", "r">>,
    <<"t", "o", "u", "c", "h">>, <<"s", "t", "a", "t">>,
    <<"w", "h", "o", "a", "m", "i">>, <<"u", "n", "a", "m", "e">>,
    <<"d", "f">>, <<"d", "u">>, <<"p", "s">>, <<"s", "t", "a", "t", "s">>,
    <<"h", "e", "l", "p">>, <<"c", "d">>, <<"w", "r", "i", "t", "e">>,
    <<"a", "p", "p", "e", "n", "d">>, <<"r", "m">>, <<"m", "v">>, <<"c", "p">>,
    <<"r", "e", "s", "t", "o", "r", "e">>,
    <<"e", "m", "p", "t", "y", "-", "t", "r", "a", "s", "h">>,
    <<"h", "e", "a", "d">>, <<"t", "a", "i", "l">>, <<"g", "r", "e", "p">>,
    <<"f", "i", "n", "d">>, <<"t", "r", "e", "e">>, <<"w", "c">>,
    <<"m", "d", "5">>, <<"s", "h", "a", "2", "5", "6">> }

\* the whitelisted verbs that run_whitelisted_command handles itself (app.py:387-758)
BUILTINS ==
  { <<"h", "e", "l", "p">>, <<"p", "s">>, <<"s", "t", "a", "t", "s">>, <<"c", "d">>,
    <<"p", "w", "d">>, <<"s", "t", "a", "t">>, <<"r", "e", "a", "d">>,
    <<"w", "r", "i", "t", "e">>, <<"a", "p", "p", "e", "n", "d">>, <<"r", "m">>,
    <<"m", "v">>, <<"c", "p">>, <<"r", "e", "s", "t", "o", "r", "e">>,
    <<"e", "m", "p", "t", "y", "-", "t", "r", "a", "s", "h">>,
    <<"h", "e", "a", "d">>, <<"t", "a", "i", "l">>, <<"g", "r", "e", "p">>,
    <<"f", "i", "n", "d">>, <<"t", "r", "e", "e">>, <<"m", "d", "5">>,
    <<"s", "h", "a", "2", "5", "6">>, <<"w", "c">> }

Letters ==
    [ upper |-> <<"A", "B", "C", "D", "E", "F", "G", "H", "I", "J", "K", "L", "M",
                  "N", "O", "P", "Q", "R", "S", "T", "U", "V", "W", "X", "Y", "Z">>,
      lower |-> <<"a", "b", "c", "d", "e", "f", "g", "h", "i", "j", "k", "l", "m",
                  "n", "o", "p", "q", "r", "s", "t", "u", "v", "w", "x", "y", "z">> ]

\* str.lower
lower(s) ==
    [i \in DOMAIN s |->
        IF \E k \in DOMAIN Letters.upper : Letters.upper[k] = s[i]
        THEN Letters.lower[CHOOSE k \in DOMAIN Letters.upper : Letters.upper[k] = s[i]]
        ELSE s[i]]

\* str.isalpha
isalpha(s) ==
    /\ s # <<>>
    /\ \A i \in DOMAIN s :
          \E k \in DOMAIN Letters.upper : s[i] = Letters.upper[k] \/ s[i] = Letters.lower[k]

\* str(i) for a natural number
RECURSIVE str_int(_)
str_int(i) == IF i < 10 THEN <<ToString(i)>>
              ELSE str_int(i \div 10) \o <<ToString(i % 10)>>

\* " ".join(tokens)
RECURSIVE join_space(_)
join_space(tokens) ==
    IF tokens = <<>> THEN <<>>
    ELSE IF Len(tokens) = 1 THEN tokens[1]
    ELSE tokens[1] \o <<" ">> \o join_space(Tail(tokens))

NoMsg == [id |-> "", args |-> <<>>]
Msg(id, args) == [id |-> id, args |-> args]

\* the result dictionary: rc is <<>> when the dictionary has no "rc" key
Result(ok, out, err) ==
    [ok |-> ok, stdout |-> out, stderr |-> err, lines |-> <<>>, rc |-> <<>>]
Fail(id, args) == Result(FALSE, NoMsg, Msg(id, args))
Done(id, args) == Result(TRUE, Msg(id, args), NoMsg)

\* the verb compared as typed
base_of_raw(parts) == parts[1]

\* app.py:382
base_of(parts) == lower(parts[1])

\* what one command leaves behind
Outcome(f, cwd, r) == [fs |-> f, cwd |-> cwd, res |-> r]

---------------------------------------------------------------------------
(* The trash (app.py:167-190, 259-278) and the move and copy helpers       *)
(* (app.py:220-256).                                                       *)

\* path.name
name_p(p) == IF p = <<>> THEN <<>> ELSE p[Len(p)]

\* the position of the last "." of a name, 0 when it has none
RECURSIVE rfind_dot(_, _)
rfind_dot(name, k) ==
    IF k = 0 THEN 0 ELSE IF name[k] = "." THEN k ELSE rfind_dot(name, k - 1)

\* PurePath.suffix: the last "." and what follows it, unless the "." leads or ends the name
suffix(name) ==
    LET k == rfind_dot(name, Len(name))
    IN  IF 1 < k /\ k < Len(name) THEN SubSeq(name, k, Len(name)) ELSE <<>>

\* PurePath.stem
stem(name) == SubSeq(name, 1, Len(name) - Len(suffix(name)))

\* app.py:173-179, 267-273: the first of <stem><infix><i><suffix>, i = 1, 2, ..., that names nothing in dir
RECURSIVE free_name(_, _, _, _, _, _)
free_name(f, dir, st, infix, suf, i) ==
    LET newname == st \o infix \o str_int(i) \o suf
    IN  IF ~ exists(f, dir \o <<newname>>) THEN newname
        ELSE free_name(f, dir, st, infix, suf, i + 1)

\* a trash that takes the target's name whether or not an entry has it
trash_dest_taken(f, name) == TRASH \o <<name>>

\* app.py:170-179: the trash entry a target named `name` is moved to
trash_dest(f, name) ==
    IF exists(f, TRASH \o <<name>>)
    THEN TRASH \o <<free_name(f, TRASH, stem(name), <<"_">>, suffix(name), 1)>>
    ELSE TRASH \o <<name>>

\* app.py:167-190; raised: trash.mkdir raised, which the caller catches (app.py:504)
_move_to_trash(f, target) ==
    LET made == mkdir_exist_ok(f, TRASH)
        dest == trash_dest(made.fs, name_p(target))
        replaced == os_rename(made.fs, target, dest)
        moved == shutil_move(made.fs, target, dest)
        msg == Msg("Moved to trash", <<name_p(target), name_p(dest)>>)
    IN  IF ~ made.ok THEN [raised |-> TRUE, fs |-> f, msg |-> NoMsg]
        ELSE IF replaced.ok THEN [raised |-> FALSE, fs |-> replaced.fs, msg |-> msg]
        ELSE IF moved.ok THEN [raised |-> FALSE, fs |-> moved.fs, msg |-> msg]
        ELSE [raised |-> FALSE, fs |-> made.fs,
              msg |-> Msg("move to trash failed", <<name_p(target)>>)]

\* app.py:220-232
_safe_mv(f, src, dest) ==
    LET made == mkdir_parents(f, parent(dest))
        final == IF exists(made.fs, dest) /\ is_dir(made.fs, dest)
                 THEN dest \o <<name_p(src)>> ELSE dest
        moved == shutil_move(made.fs, src, final)
    IN  IF ~ made.ok THEN [fs |-> f, msg |-> Msg("Move failed", <<>>)]
        ELSE IF moved.ok
        THEN [fs |-> moved.fs, msg |-> Msg("Moved", <<name_p(src), PathStr(final)>>)]
        ELSE [fs |-> made.fs, msg |-> Msg("Move failed", <<>>)]

\* app.py:235-256
_safe_cp(f, src, dest, recursive) ==
    IF is_dir(f, src)
    THEN LET final == IF exists(f, dest) /\ is_dir(f, dest)
                      THEN dest \o <<name_p(src)>> ELSE dest
             copied == copytree(f, src, final)
         IN  IF ~ recursive
             THEN [fs |-> f, msg |-> Msg("Source is a directory; use cp -r", <<>>)]
             ELSE IF exists(f, final)
             THEN [fs |-> f, msg |-> Msg("Destination already exists", <<PathStr(final)>>)]
             ELSE IF copied.ok
             THEN [fs |-> copied.fs,
                   msg |-> Msg("Directory copied", <<name_p(src), PathStr(final)>>)]
             ELSE [fs |-> f, msg |-> Msg("Copy failed", <<>>)]
    ELSE LET dest_parent == IF is_dir(f, dest) THEN dest ELSE parent(dest)
             made == mkdir_parents(f, dest_parent)
             final == IF is_dir(made.fs, dest) THEN dest_parent \o <<name_p(src)>> ELSE dest
             copied == copy2(made.fs, src, final)
         IN  IF ~ made.ok THEN [fs |-> f, msg |-> Msg("Copy failed", <<>>)]
             ELSE IF copied.ok
             THEN [fs |-> copied.fs, msg |-> Msg("Copied", <<name_p(src), PathStr(final)>>)]
             ELSE [fs |-> made.fs, msg |-> Msg("Copy failed", <<>>)]

\* base / s as pathlib joins them: an absolute s replaces base; ".." stays a component
joinpath(base, s) == IF is_absolute(s) THEN PathParts(s) ELSE base \o PathParts(s)

\* the entry the operating system reaches through the components of a path:
\* every component walked through must be a directory
RECURSIVE walk(_, _, _)
walk(f, at, parts) ==
    IF parts = <<>> THEN [ok |-> TRUE, path |-> at]
    ELSE IF ~ is_dir(f, at) THEN [ok |-> FALSE, path |-> at]
    ELSE walk(f, IF Head(parts) = Names.dotdot THEN parent(at) ELSE Append(at, Head(parts)),
              Tail(parts))

\* a restore that takes the name whether or not the directory has an entry of it
restore_dest_taken(f, name, target_dir) ==
    LET first == walk(f, <<>>, joinpath(target_dir, name))
    IN  IF first.ok THEN first.path ELSE resolve(joinpath(target_dir, name))

\* a restore that renames when the name is free instead of when it is taken
restore_dest_inverted(f, name, target_dir) ==
    LET first == walk(f, <<>>, joinpath(target_dir, name))
        leaf == name_p(joinpath(target_dir, name))
    IN  IF first.ok /\ ~ exists(f, first.path)
        THEN target_dir \o <<free_name(f, target_dir, stem(leaf), Names.restored,
                                       suffix(leaf), 1)>>
        ELSE first.path

\* app.py:265-273: where a restored entry goes
restore_dest(f, name, target_dir) ==
    LET first == walk(f, <<>>, joinpath(target_dir, name))
        leaf == name_p(joinpath(target_dir, name))
    IN  IF first.ok /\ exists(f, first.path)
        THEN target_dir \o <<free_name(f, target_dir, stem(leaf), Names.restored,
                                       suffix(leaf), 1)>>
        ELSE IF first.ok THEN first.path
        ELSE resolve(joinpath(target_dir, name))

\* app.py:259-278
_restore_from_trash(f, name, target_dir) ==
    LET src == walk(f, <<>>, joinpath(TRASH, name))
        dest == restore_dest(f, name, target_dir)
        moved == shutil_move(f, src.path, dest)
    IN  IF ~ (src.ok /\ exists(f, src.path))
        THEN [fs |-> f, msg |-> Msg("not found in trash", <<name>>)]
        ELSE IF moved.ok
        THEN [fs |-> moved.fs, msg |-> Msg("Restored", <<name, name_p(dest)>>)]
        ELSE [fs |-> f, msg |-> Msg("Restore failed", <<>>)]

---------------------------------------------------------------------------
(* run_whitelisted_command (app.py:376-784), one operator per branch: the  *)
(* tree, working directory and result a command line leaves, given the     *)
(* tree and working directory it starts from.                              *)

\* app.py:380-384
refused(parts) ==
    IF Len(parts) = 0 THEN Fail("Empty command.", <<>>)
    ELSE Fail("Command '<base>' not allowed.", <<base_of(parts)>>)

\* a cd that takes the new directory before testing it
cmd_cd_unchecked(parts, f, cwd) ==
    LET target == IF Len(parts) > 1 THEN parts[2] ELSE Names.dot
        newp == safe_path(target, cwd)
    IN  IF exists(f, newp) /\ is_dir(f, newp)
        THEN Outcome(f, newp, Done("<cwd>", <<PathStr(newp)>>))
        ELSE Outcome(f, newp, Fail("Directory not found", <<PathStr(newp)>>))

\* app.py:399-407
cmd_cd(parts, f, cwd) ==
    LET target == IF Len(parts) > 1 THEN parts[2] ELSE Names.dot
        newp == safe_path(target, cwd)
    IN  IF exists(f, newp) /\ is_dir(f, newp)
        THEN Outcome(f, newp, Done("<cwd>", <<PathStr(newp)>>))
        ELSE Outcome(f, cwd, Fail("Directory not found", <<PathStr(newp)>>))

\* app.py:444-454
cmd_read(parts, f, cwd) ==
    LET target == safe_path(parts[2], cwd)
    IN  IF Len(parts) < 2
        THEN Outcome(f, cwd, Fail("read requires a filename", <<>>))
        ELSE IF ~ exists(f, target) \/ ~ is_file(f, target)
        THEN Outcome(f, cwd, Fail("File not found", <<name_p(target)>>))
        ELSE Outcome(f, cwd, Done("<text>", <<read_text(f, target)>>))

\* str.splitlines on a text read with universal newlines: the text is cut at each
\* line boundary, and a boundary at the end opens no further line
RECURSIVE splitlines(_)
splitlines(text) ==
    LET ends == {k \in DOMAIN text : text[k] \in {"\n", "\f"}}
        k == CHOOSE k \in ends : \A j \in ends : k <= j
    IN  IF text = <<>> THEN <<>>
        ELSE IF ends = {} THEN <<text>>
        ELSE <<SubSeq(text, 1, k - 1)>> \o splitlines(SubSeq(text, k + 1, Len(text)))

\* int(tok) for a token of an optional sign and decimal digits; ok is FALSE when
\* int raises ValueError
int_of(tok) ==
    LET digits == <<"0", "1", "2", "3", "4", "5", "6", "7", "8", "9">>
        val(c) == (CHOOSE k \in DOMAIN digits : digits[k] = c) - 1
        signed == Len(tok) > 0 /\ tok[1] \in {"-", "+"}
        body == IF signed THEN Tail(tok) ELSE tok
        RECURSIVE num(_)
        num(d) == IF d = <<>> THEN 0 ELSE num(SubSeq(d, 1, Len(d) - 1)) * 10 + val(d[Len(d)])
    IN  IF body = <<>> \/ \E i \in DOMAIN body : \A k \in DOMAIN digits : digits[k] # body[i]
        THEN [ok |-> FALSE, n |-> 0]
        ELSE [ok |-> TRUE, n |-> IF tok[1] = "-" THEN 0 - num(body) ELSE num(body)]

\* app.py:293-299: lines[-n:] as Python slices: a negative index counts from the
\* end and stops at the start, an index that is not negative counts from the start
_tail_file_lines(f, path, n) ==
    LET lines == splitlines(read_text(f, path))
        index == 0 - n
        start == IF index < 0
                 THEN (IF Len(lines) + index < 0 THEN 0 ELSE Len(lines) + index)
                 ELSE (IF index > Len(lines) THEN Len(lines) ELSE index)
    IN  SubSeq(lines, start + 1, Len(lines))

\* app.py:595-614
cmd_tail(parts, f, cwd) ==
    LET given == Tail(parts)
        numbered == Len(given) > 1 /\ given[1] = Words.n
        parsed == int_of(given[2])
        n == IF numbered THEN parsed.n ELSE 10
        args == IF numbered THEN SubSeq(given, 3, Len(given)) ELSE given
        target == safe_path(args[1], cwd)
    IN  IF numbered /\ ~ parsed.ok
        THEN Outcome(f, cwd, Fail("Invalid number for -n", <<>>))
        ELSE IF args = <<>>
        THEN Outcome(f, cwd, Fail("tail requires a filename", <<>>))
        ELSE IF ~ exists(f, target) \/ ~ is_file(f, target)
        THEN Outcome(f, cwd, Fail("File not found", <<args[1]>>))
        ELSE Outcome(f, cwd, [Result(TRUE, Msg("<lines>", <<>>), NoMsg)
                                  EXCEPT !.lines = _tail_file_lines(f, target, n)])

\* app.py:457-467
cmd_write(parts, f, cwd) ==
    LET target == safe_path(parts[2], cwd)
        content == join_space(SubSeq(parts, 3, Len(parts)))
        made == mkdir_parents(f, parent(target))
        written == write_text(made.fs, target, content)
    IN  IF Len(parts) < 3
        THEN Outcome(f, cwd, Fail("write requires a filename and text", <<>>))
        ELSE IF ~ made.ok THEN Outcome(f, cwd, Fail("Write failed", <<>>))
        ELSE IF written.ok THEN Outcome(written.fs, cwd, Done("Wrote", <<name_p(target)>>))
        ELSE Outcome(made.fs, cwd, Fail("Write failed", <<>>))

\* app.py:470-481
cmd_append(parts, f, cwd) ==
    LET target == safe_path(parts[2], cwd)
        content == join_space(SubSeq(parts, 3, Len(parts)))
        made == mkdir_parents(f, parent(target))
        written == append_text(made.fs, target, content)
    IN  IF Len(parts) < 3
        THEN Outcome(f, cwd, Fail("append requires a filename and text", <<>>))
        ELSE IF ~ made.ok THEN Outcome(f, cwd, Fail("Append failed", <<>>))
        ELSE IF written.ok
        THEN Outcome(written.fs, cwd, Done("Appended to", <<name_p(target)>>))
        ELSE Outcome(made.fs, cwd, Fail("Append failed", <<>>))

RecursiveFlags == {Words.r, Words.R, Words.recursive}
PermanentFlags == {Words.permanent, Words.perma}

\* app.py:486-490: the tokens of an rm that are not flags
rm_targets(parts) ==
    SelectSeq(Tail(parts), LAMBDA tok : tok \notin RecursiveFlags \cup PermanentFlags \cup {Words.yes})

\* an rm that trashes a directory without being asked to recurse
dir_never_refused(f, tgt, recursive, permanent) == FALSE

\* app.py:498: a directory target needs -r or --permanent
dir_refused(f, tgt, recursive, permanent) == is_dir(f, tgt) /\ ~ recursive /\ ~ permanent

\* app.py:494-514: the loop over the targets; rejected is the return of line 508
RECURSIVE rm_loop(_, _, _, _, _, _, _)
rm_loop(targets, f, cwd, recursive, permanent, confirm, out_lines) ==
    IF targets = <<>> THEN [fs |-> f, lines |-> out_lines, rejected |-> FALSE]
    ELSE LET t == Head(targets)
             rest == Tail(targets)
             tgt == safe_path(t, cwd)
             trashed == _move_to_trash(f, tgt)
             deleted == IF is_dir(f, tgt) THEN rmtree(f, tgt) ELSE os_unlink(f, tgt)
         IN  IF ~ exists(f, tgt)
             THEN rm_loop(rest, f, cwd, recursive, permanent, confirm,
                          Append(out_lines, Msg("not found", <<t>>)))
             ELSE IF dir_refused(f, tgt, recursive, permanent)
             THEN rm_loop(rest, f, cwd, recursive, permanent, confirm,
                          Append(out_lines, Msg("is a directory", <<t>>)))
             ELSE IF ~ permanent
             THEN IF trashed.raised
                  THEN rm_loop(rest, f, cwd, recursive, permanent, confirm,
                               Append(out_lines, Msg("failed to move to trash", <<t>>)))
                  ELSE rm_loop(rest, trashed.fs, cwd, recursive, permanent, confirm,
                               Append(out_lines, trashed.msg))
             ELSE IF ~ confirm
             THEN [fs |-> f, lines |-> out_lines, rejected |-> TRUE]
             ELSE IF deleted.ok
             THEN rm_loop(rest, deleted.fs, cwd, recursive, permanent, confirm,
                          Append(out_lines, Msg("Deleted permanently", <<t>>)))
             ELSE rm_loop(rest, f, cwd, recursive, permanent, confirm,
                          Append(out_lines, Msg("delete failed", <<t>>)))

\* an rm that handles its first target and leaves the others alone
cmd_rm_first_target(parts, f, cwd) ==
    LET flags == {parts[i] : i \in 2..Len(parts)}
        targets == rm_targets(parts)
        done == rm_loop(<<Head(targets)>>, f, cwd, flags \cap RecursiveFlags # {},
                        flags \cap PermanentFlags # {}, Words.yes \in flags, <<>>)
    IN  IF targets = <<>>
        THEN Outcome(f, cwd, Fail("rm requires at least one target", <<>>))
        ELSE Outcome(done.fs, cwd,
                     [Result(TRUE, Msg("<lines>", <<>>), NoMsg) EXCEPT !.lines = done.lines])

\* app.py:484-515
cmd_rm(parts, f, cwd) ==
    LET flags == {parts[i] : i \in 2..Len(parts)}
        recursive == flags \cap RecursiveFlags # {}
        permanent == flags \cap PermanentFlags # {}
        confirm == Words.yes \in flags
        targets == rm_targets(parts)
        done == rm_loop(targets, f, cwd, recursive, permanent, confirm, <<>>)
    IN  IF targets = <<>>
        THEN Outcome(f, cwd, Fail("rm requires at least one target", <<>>))
        ELSE IF done.rejected
        THEN Outcome(done.fs, cwd, Fail("Permanent delete requires --yes-i-know", <<>>))
        ELSE Outcome(done.fs, cwd,
                     [Result(TRUE, Msg("<lines>", <<>>), NoMsg) EXCEPT !.lines = done.lines])

\* app.py:518-526
cmd_mv(parts, f, cwd) ==
    LET src == safe_path(parts[2], cwd)
        dest == safe_path(parts[3], cwd)
        mv == _safe_mv(f, src, dest)
    IN  IF Len(parts) < 3
        THEN Outcome(f, cwd, Fail("mv requires source and destination", <<>>))
        ELSE IF ~ exists(f, src)
        THEN Outcome(f, cwd, Fail("Source not found", <<parts[2]>>))
        ELSE Outcome(mv.fs, cwd, Result(TRUE, mv.msg, NoMsg))

\* app.py:529-542
cmd_cp(parts, f, cwd) ==
    LET recursive == \E i \in 2..Len(parts) : parts[i] = Words.r
        args == SelectSeq(Tail(parts), LAMBDA a : a # Words.r)
        src == safe_path(args[1], cwd)
        dest == safe_path(args[2], cwd)
        cp == _safe_cp(f, src, dest, recursive)
    IN  IF Len(args) < 2
        THEN Outcome(f, cwd, Fail("cp requires source and destination", <<>>))
        ELSE IF ~ exists(f, src)
        THEN Outcome(f, cwd, Fail("Source not found", <<args[1]>>))
        ELSE Outcome(cp.fs, cwd, Result(TRUE, cp.msg, NoMsg))

\* app.py:545-550
cmd_restore(parts, f, cwd) ==
    LET restored == _restore_from_trash(f, parts[2], cwd)
    IN  IF Len(parts) < 2
        THEN Outcome(f, cwd, Fail("restore requires a filename present in .trash/", <<>>))
        ELSE Outcome(restored.fs, cwd, Result(TRUE, restored.msg, NoMsg))

\* app.py:553-568
cmd_empty_trash(parts, f, cwd) ==
    IF Len(parts) < 2 \/ parts[2] # Words.yes
    THEN Outcome(f, cwd, Fail("empty-trash is destructive", <<>>))
    ELSE IF ~ exists(f, TRASH) THEN Outcome(f, cwd, Done("Trash is already empty", <<>>))
    ELSE IF ~ is_dir(f, TRASH) THEN Outcome(f, cwd, Fail("Empty trash failed", <<>>))
    ELSE Outcome([q \in DOMAIN f \ (Under(f, TRASH) \ {TRASH}) |-> f[q]], cwd,
                 Done("Trash emptied", <<>>))

\* app.py:763-766: the tokens of a native command that are resolved as paths
is_pathlike(p) ==
    /\ ~ startswith(p, <<"-">>)
    /\ \/ \E k \in DOMAIN p : p[k] \in {"/", "\\", ".", "~"}
       \/ (~ isalpha(p) /\ Len(p) > 0)

\* app.py:761-769: the argument vector of the native fallback
safe_parts(parts, cwd) ==
    [i \in DOMAIN parts |->
        IF is_pathlike(parts[i]) THEN PathStr(safe_path(parts[i], cwd)) ELSE parts[i]]

\* app.py:214: the dictionary _spawn_and_wait returns for exit code rc
spawn_result(rc, out, err) ==
    [ok |-> rc = 0, stdout |-> out, stderr |-> err, lines |-> <<>>, rc |-> <<rc>>]

\* app.py:783-784: Popen raised and the handler of run_whitelisted_command caught it
launch_failed == Fail("Error: <e>", <<>>)

\* app.py:46
MAX_OUTPUT_CHARS == 20000

\* app.py:778, 780: "\n[truncated output]" and "\n[truncated stderr]"
Markers ==
  [ stdout |-> <<"\n", "[", "t", "r", "u", "n", "c", "a", "t", "e", "d", " ",
                 "o", "u", "t", "p", "u", "t", "]">>,
    stderr |-> <<"\n", "[", "t", "r", "u", "n", "c", "a", "t", "e", "d", " ",
                 "s", "t", "d", "e", "r", "r", "]">> ]

\* the text a process wrote, as a result holds it, and back
Text(chars) == Msg("<text>", <<chars>>)
text_of(m) == IF m.id = "<text>" THEN m.args[1] ELSE <<>>

\* a ceiling that an output of exactly MAX_OUTPUT_CHARS characters exceeds
truncate_from_ceiling(text, marker) ==
    IF Len(text) >= MAX_OUTPUT_CHARS
    THEN SubSeq(text, 1, MAX_OUTPUT_CHARS) \o marker
    ELSE text

\* app.py:777-780: text[:MAX_OUTPUT_CHARS] + marker when text is longer
truncate(text, marker) ==
    IF Len(text) > MAX_OUTPUT_CHARS
    THEN SubSeq(text, 1, MAX_OUTPUT_CHARS) \o marker
    ELSE text

\* app.py:776-781: what the native fallback returns, given what _spawn_and_wait
\* returned (r) or the failure to launch
native_result(r) ==
    IF r = launch_failed THEN r
    ELSE [r EXCEPT !.stdout = IF text_of(@) = <<>> THEN @
                              ELSE Text(truncate(text_of(@), Markers.stdout)),
                   !.stderr = IF text_of(@) = <<>> THEN @
                              ELSE Text(truncate(text_of(@), Markers.stderr))]

---------------------------------------------------------------------------
(* The native-process supervisor: _spawn_and_wait (app.py:193-217) run by  *)
(* the threads serving command requests, api_kill (app.py:787-807) run by  *)
(* the thread serving the cancel request.  A with PROCESS_LOCK block that  *)
(* does not wait inside is one step taken while the lock is free; api_kill *)
(* sleeps inside its block and keeps the lock over two steps.  Time is not *)
(* counted: the timeout may expire whenever the process is still running.  *)

NumWorkers == 2
MaxSpawns == 2

Workers == 1..NumWorkers
Canceller == 0
Threads == Workers \cup {Canceller}

\* Python's None, for the slot, the local proc and the lock's holder
None == -1

SIGKILL == 9
SIGTERM == 15

NoReturn == [path |-> "none", pid |-> None, ok |-> FALSE, rc |-> <<>>, slot |-> None]
NoCancel == [called |-> FALSE, ok |-> FALSE, running |-> {}, busy |-> FALSE,
             signalled |-> {}, done |-> TRUE]

\* a request that has not arrived
IdleReq == [at |-> "idle", parts |-> <<>>, tgt |-> <<>>, dest |-> <<>>, i |-> 0,
            argv |-> <<>>, bases |-> <<>>, res |-> Result(TRUE, NoMsg, NoMsg)]

procvars == <<pc, PROCESS_LOCK, CURRENT_PROCESS, procs, proc, ret, cancel>>

InitSupervisor ==
    /\ pc = [t \in Threads |-> "idle"]
    /\ PROCESS_LOCK = None
    /\ CURRENT_PROCESS = None
    /\ procs = <<>>
    /\ proc = [t \in Threads |-> None]
    /\ ret = [t \in Workers |-> NoReturn]
    /\ cancel = NoCancel

running(p) == p # None /\ procs[p].alive

\* Popen.kill, Popen.terminate: the signal ends a process that is still running
signal(p, sig) ==
    [procs EXCEPT ![p] = IF @.alive THEN [alive |-> FALSE, rc |-> 0 - sig] ELSE @]

\* a timeout that reports the exit code of the killed process
timeout_rc_of_process == 0 - SIGKILL

\* app.py:213: the exit code reported after a timeout
timeout_rc == -1

\* a slot cleared on the normal return only
slot_on_return_normal(path, slot) == IF path = "exit" THEN None ELSE slot

\* app.py:215-217: the slot as a _spawn_and_wait call leaves it
slot_on_return(path, slot) == None

\* a request enters _spawn_and_wait (app.py:193-196)
SpawnCall(w) ==
    /\ pc[w] = "idle"
    /\ Len(procs) + Cardinality({t \in Workers : pc[t] = "launch"}) < MaxSpawns
    /\ pc' = [pc EXCEPT ![w] = "launch"]
    /\ proc' = [proc EXCEPT ![w] = None]
    /\ ret' = [ret EXCEPT ![w] = NoReturn]
    /\ UNCHANGED <<PROCESS_LOCK, CURRENT_PROCESS, procs, cancel>>

\* app.py:197-199: under the lock, Popen starts the process and the slot takes it
Launch(w) ==
    /\ pc[w] = "launch"
    /\ PROCESS_LOCK = None
    /\ procs' = Append(procs, [alive |-> TRUE, rc |-> 0])
    /\ proc' = [proc EXCEPT ![w] = Len(procs) + 1]
    /\ CURRENT_PROCESS' = Len(procs) + 1
    /\ pc' = [pc EXCEPT ![w] = "communicate"]
    /\ UNCHANGED <<PROCESS_LOCK, ret, cancel>>

\* app.py:198: Popen raises (no such program), the lock is released, control
\* goes to the finally block
LaunchFails(w) ==
    /\ pc[w] = "launch"
    /\ PROCESS_LOCK = None
    /\ ret' = [ret EXCEPT ![w] = [path |-> "raised", pid |-> None, ok |-> FALSE, rc |-> <<>>, slot |-> None]]
    /\ pc' = [pc EXCEPT ![w] = "finally"]
    /\ UNCHANGED <<PROCESS_LOCK, CURRENT_PROCESS, procs, proc, cancel>>

\* the process ends by itself with exit code rc
ProcessExits(p, rc) ==
    /\ procs[p].alive
    /\ procs' = [procs EXCEPT ![p] = [alive |-> FALSE, rc |-> rc]]
    /\ UNCHANGED <<pc, PROCESS_LOCK, CURRENT_PROCESS, proc, ret, cancel>>

\* app.py:201-202, 214: communicate returns once the process has ended
CommunicateReturns(w) ==
    /\ pc[w] = "communicate"
    /\ ~ running(proc[w])
    /\ ret' = [ret EXCEPT ![w] = [path |-> "exit", pid |-> proc[w],
                                  ok |-> procs[proc[w]].rc = 0,
                                  rc |-> <<procs[proc[w]].rc>>, slot |-> None]]
    /\ pc' = [pc EXCEPT ![w] = "finally"]
    /\ UNCHANGED <<PROCESS_LOCK, CURRENT_PROCESS, procs, proc, cancel>>

\* app.py:203: TIMEOUT seconds have passed and the process is still running
TimeoutExpired(w) ==
    /\ pc[w] = "communicate"
    /\ running(proc[w])
    /\ pc' = [pc EXCEPT ![w] = "kill"]
    /\ UNCHANGED <<PROCESS_LOCK, CURRENT_PROCESS, procs, proc, ret, cancel>>

\* app.py:204-208: under the lock, proc.kill()
TimeoutKill(w) ==
    /\ pc[w] = "kill"
    /\ PROCESS_LOCK = None
    /\ procs' = signal(proc[w], SIGKILL)
    /\ pc' = [pc EXCEPT ![w] = "salvage"]
    /\ UNCHANGED <<PROCESS_LOCK, CURRENT_PROCESS, proc, ret, cancel>>

\* app.py:209-214: the second communicate returns or times out; rc = -1 either way
TimeoutReturns(w) ==
    /\ pc[w] = "salvage"
    /\ ret' = [ret EXCEPT ![w] = [path |-> "timeout", pid |-> proc[w],
                                  ok |-> timeout_rc = 0, rc |-> <<timeout_rc>>,
                                  slot |-> None]]
    /\ pc' = [pc EXCEPT ![w] = "finally"]
    /\ UNCHANGED <<PROCESS_LOCK, CURRENT_PROCESS, procs, proc, cancel>>

\* app.py:215-217: under the lock, the slot is cleared and the call returns
Finally(w) ==
    /\ pc[w] = "finally"
    /\ PROCESS_LOCK = None
    /\ CURRENT_PROCESS' = slot_on_return(ret[w].path, CURRENT_PROCESS)
    /\ ret' = [ret EXCEPT ![w].slot = CURRENT_PROCESS']
    /\ pc' = [pc EXCEPT ![w] = "idle"]
    /\ UNCHANGED <<PROCESS_LOCK, procs, proc, cancel>>

\* what an api_kill call finds when it takes the lock
Found == [called |-> TRUE, ok |-> FALSE, running |-> {p \in DOMAIN procs : procs[p].alive},
          busy |-> \E w \in Workers : pc[w] # "idle",
          signalled |-> {}, done |-> FALSE]

\* app.py:790-793: the lock is taken, the slot is empty, api_kill returns ok=false
CancelNothing ==
    /\ pc[Canceller] = "idle"
    /\ PROCESS_LOCK = None
    /\ CURRENT_PROCESS = None
    /\ cancel' = [Found EXCEPT !.done = TRUE]
    /\ proc' = [proc EXCEPT ![Canceller] = CURRENT_PROCESS]
    /\ UNCHANGED <<pc, PROCESS_LOCK, CURRENT_PROCESS, procs, ret>>

\* app.py:790-799: the lock is taken, the tracked process gets SIGTERM, which ends
\* it now or which it ignores; api_kill sleeps with the lock held
CancelTerminate(obeyed) ==
    /\ pc[Canceller] = "idle"
    /\ PROCESS_LOCK = None
    /\ CURRENT_PROCESS # None
    /\ PROCESS_LOCK' = Canceller
    /\ proc' = [proc EXCEPT ![Canceller] = CURRENT_PROCESS]
    /\ procs' = IF obeyed THEN signal(CURRENT_PROCESS, SIGTERM) ELSE procs
    /\ cancel' = [Found EXCEPT !.signalled = {CURRENT_PROCESS}]
    /\ pc' = [pc EXCEPT ![Canceller] = "sleep"]
    /\ UNCHANGED <<CURRENT_PROCESS, ret>>

\* an api_kill that returns with the lock still held
CancelKill_keeps_lock ==
    /\ pc[Canceller] = "sleep"
    /\ procs' = signal(proc[Canceller], SIGKILL)
    /\ PROCESS_LOCK' = Canceller
    /\ cancel' = [cancel EXCEPT !.ok = TRUE, !.done = TRUE]
    /\ pc' = [pc EXCEPT ![Canceller] = "idle"]
    /\ UNCHANGED <<CURRENT_PROCESS, proc, ret>>

\* app.py:800-807: after the sleep the process is killed if it still runs, the lock
\* is released and api_kill returns ok=true
CancelKill ==
    /\ pc[Canceller] = "sleep"
    /\ procs' = signal(proc[Canceller], SIGKILL)
    /\ PROCESS_LOCK' = None
    /\ cancel' = [cancel EXCEPT !.ok = TRUE, !.done = TRUE]
    /\ pc' = [pc EXCEPT ![Canceller] = "idle"]
    /\ UNCHANGED <<CURRENT_PROCESS, proc, ret>>

---------------------------------------------------------------------------
(* The engine running one command after another.                           *)

MaxSteps == 2

slash(a, b) == a \o <<"/">> \o b

\* the path strings given to the commands
Paths ==
  [ f |-> Names.ftxt,
    a |-> Names.a,
    g |-> Names.g,
    up |-> Names.dotdot,
    dot |-> Names.dot,
    trash |-> Names.trash,
    af |-> slash(Names.a, Names.ftxt),
    tf |-> slash(Names.trash, Names.ftxt),
    sib |-> slash(Names.dotdot, Names.sandbox2),
    sibf |-> slash(slash(Names.dotdot, Names.sandbox2), Names.ftxt),
    abs |-> <<"/">> \o slash(Names.etc, Names.passwd),
    bg |-> slash(Names.b, Names.g),
    upf |-> slash(Names.dotdot, Names.ftxt),
    ag |-> slash(Names.a, Names.g) ]

\* the trees the server may find when it starts: /srv holds the sandbox, with a
\* directory a and two files named f.txt, next to a directory sandbox2; the trash is
\* absent or holds entries of earlier runs
Entry(p, node) == <<p, node>>

BaseEntries ==
    { Entry(<<Names.srv>>, DirNode),
      Entry(ROOT, DirNode),
      Entry(ROOT \o <<Names.ftxt>>, FileNode(<<"x">>)),
      Entry(ROOT \o <<Names.a>>, DirNode),
      Entry(ROOT \o <<Names.a, Names.ftxt>>, FileNode(<<"y">>)),
      Entry(<<Names.srv, Names.sandbox2>>, DirNode),
      Entry(<<Names.srv, Names.sandbox2, Names.ftxt>>, FileNode(<<"z">>)) }

TrashEntries ==
    { {},
      { Entry(TRASH, DirNode),
        Entry(TRASH \o <<Names.ftxt>>, FileNode(<<"o">>)) },
      { Entry(TRASH, DirNode),
        Entry(TRASH \o <<Names.ftxt>>, FileNode(<<"o">>)),
        Entry(TRASH \o <<Names.f1txt>>, FileNode(<<"p">>)),
        Entry(TRASH \o <<Names.a>>, DirNode),
        Entry(TRASH \o <<Names.a, Names.g>>, FileNode(<<"q">>)) } }

Tree(entries) ==
    [p \in {e[1] : e \in entries} |-> (CHOOSE e \in entries : e[1] = p)[2]]

InitTrees == {Tree(BaseEntries \cup t) : t \in TrashEntries}

\* the command lines tried, by the branch of run_whitelisted_command they reach
Lines ==
    [ denied |-> {<<>>, <<Verbs.sudo, Verbs.rm, Paths.f>>, <<Verbs.Bash>>},
      cd |-> {<<Verbs.cd>>}
             \cup {<<Verbs.cd, p>> : p \in {Paths.up, Paths.a, Paths.trash, Paths.sib, Paths.g, Paths.f}},
      write |-> {<<Verbs.write, Paths.f>>}
                \cup {<<Verbs.write, p, Words.h, Words.w>> : p \in {Paths.f, Paths.sibf, Paths.bg, Paths.trash}},
      append |-> {<<Verbs.append, p, Words.w>> : p \in {Paths.f, Paths.sibf}},
      rm |-> {<<Verbs.rm>>, <<Verbs.RM, Words.R, Paths.a>>,
              <<Verbs.rm, Words.recursive, Words.perma, Words.yes, Paths.a>>}
             \cup {<<Verbs.rm>> \o tg :
                     tg \in { <<Paths.f>>, <<Paths.a>>, <<Paths.af>>, <<Paths.sibf>>, <<Paths.tf>>,
                              <<Paths.g, Paths.f>>, <<Paths.f, Paths.af>> }}
             \cup {<<Verbs.rm, Paths.trash>>}
             \cup {<<Verbs.rm, Words.r>> \o tg :
                     tg \in { <<Paths.a>>, <<Paths.up>>, <<Paths.dot>>, <<Paths.trash>> }}
             \cup {<<Verbs.rm, Words.permanent>> \o tg :
                     tg \in { <<Paths.f>>, <<Paths.g>>, <<Paths.g, Paths.f>> }}
             \cup {<<Verbs.rm, Words.permanent, Words.yes>> \o tg :
                     tg \in { <<Paths.f>>, <<Paths.a>>, <<Paths.up>>, <<Paths.dot>>, <<Paths.sibf>> }},
      mv |-> {<<Verbs.mv, Paths.f>>}
             \cup {<<Verbs.mv, x[1], x[2]>> :
                     x \in { <<Paths.f, Paths.a>>, <<Paths.a, Paths.sib>>, <<Paths.sibf, Paths.g>>,
                             <<Paths.dot, Paths.g>>, <<Paths.g, Paths.a>>, <<Paths.a, Paths.af>> }},
      cp |-> {<<Verbs.cp, x[1], x[2]>> :
                     x \in { <<Paths.f, Paths.a>>, <<Paths.f, Paths.sibf>>, <<Paths.a, Paths.g>>,
                             <<Paths.g, Paths.a>> }}
             \cup {<<Verbs.cp, Words.r, x[1], x[2]>> :
                     x \in { <<Paths.a, Paths.g>>, <<Paths.a, Paths.sib>>, <<Paths.a, Paths.f>> }},
      restore |-> {<<Verbs.restore>>}
                  \cup {<<Verbs.restore, n>> :
                          n \in {Names.ftxt, Names.f1txt, Names.a, Names.g, Paths.upf, Paths.ag}},
      empty_trash |-> {<<Verbs.empty_trash>>, <<Verbs.empty_trash, Words.yes>>},
      native |-> {<<Verbs.LS, Paths.sibf>>, <<Verbs.echo, Words.h>>} ]

Init ==
    /\ rp = IdleCall
    /\ fs \in InitTrees
    /\ CURRENT_DIR = resolve(ROOT)
    /\ res = Result(TRUE, NoMsg, NoMsg)
    /\ hist = <<>>
    /\ spawned = <<>>
    /\ req = [w \in Workers |-> IdleReq]
    /\ InitSupervisor

\* one command line runs from start to end and leaves outcome o
Run(parts, o) ==
    /\ Len(hist) < MaxSteps
    /\ fs' = o.fs
    /\ CURRENT_DIR' = o.cwd
    /\ res' = o.res
    /\ hist' = Append(hist, [cmd |-> parts, fs |-> fs, cwd |-> CURRENT_DIR,
                             spawned |-> Len(spawned)])
    /\ UNCHANGED <<rp, req, procvars>>

Builtin(parts, verb, o) ==
    /\ Len(hist) < MaxSteps
    /\ Len(parts) > 0
    /\ base_of(parts) \in WHITELIST
    /\ base_of(parts) = verb
    /\ Run(parts, o)
    /\ UNCHANGED spawned

Refuse(parts) ==
    /\ Len(hist) < MaxSteps
    /\ IF Len(parts) = 0 THEN TRUE ELSE base_of(parts) \notin WHITELIST
    /\ Run(parts, Outcome(fs, CURRENT_DIR, refused(parts)))
    /\ UNCHANGED spawned

Cd(parts) == Builtin(parts, Verbs.cd, cmd_cd(parts, fs, CURRENT_DIR))

Write(parts) == Builtin(parts, Verbs.write, cmd_write(parts, fs, CURRENT_DIR))

Read(parts) == Builtin(parts, Verbs.read, cmd_read(parts, fs, CURRENT_DIR))

AppendTo(parts) == Builtin(parts, Verbs.append, cmd_append(parts, fs, CURRENT_DIR))

Rm(parts) == Builtin(parts, Verbs.rm, cmd_rm(parts, fs, CURRENT_DIR))

Mv(parts) == Builtin(parts, Verbs.mv, cmd_mv(parts, fs, CURRENT_DIR))

Cp(parts) == Builtin(parts, Verbs.cp, cmd_cp(parts, fs, CURRENT_DIR))

Restore(parts) == Builtin(parts, Verbs.restore, cmd_restore(parts, fs, CURRENT_DIR))

EmptyTrash(parts) == Builtin(parts, Verbs.empty_trash, cmd_empty_trash(parts, fs, CURRENT_DIR))

\* app.py:760-781: a whitelisted verb without a branch of its own is run as a process
\* (what the process does to the tree is not part of the model)
Native(parts, r) ==
    /\ Len(hist) < MaxSteps
    /\ Len(parts) > 0
    /\ base_of(parts) \in WHITELIST \ BUILTINS
    /\ Run(parts, Outcome(fs, CURRENT_DIR, native_result(r)))
    /\ spawned' = Append(spawned, [args |-> safe_parts(parts, CURRENT_DIR),
                                   cwd |-> CURRENT_DIR, returned |-> r])

\* how a native process can end: its exit code, or -1 when it ran into the timeout
NativeResults == {spawn_result(rc, NoMsg, NoMsg) : rc \in {0, 1, -1}} \cup {launch_failed}

Next ==
    \/ \E parts \in Lines.denied : Refuse(parts)
    \/ \E parts \in Lines.cd : Cd(parts)
    \/ \E parts \in Lines.write : Write(parts)
    \/ \E parts \in Lines.append : AppendTo(parts)
    \/ \E parts \in Lines.rm : Rm(parts)
    \/ \E parts \in Lines.mv : Mv(parts)
    \/ \E parts \in Lines.cp : Cp(parts)
    \/ \E parts \in Lines.restore : Restore(parts)
    \/ \E parts \in Lines.empty_trash : EmptyTrash(parts)
    \/ \E parts \in Lines.native, r \in NativeResults : Native(parts, r)

---------------------------------------------------------------------------
(* Calls of safe_path on its own: the path string grows one segment at a   *)
(* time, relative or absolute, against a base directory inside the         *)
(* sandbox.                                                                *)

MaxSegs == 4

InitResolve ==
    /\ \E b \in {ROOT, ROOT \o <<Names.a>>, ROOT \o <<Names.a, Names.b>>, TRASH},
          s \in {<<>>, <<"/">>} : rp = Call(s, b, 0)
    /\ fs = <<>>
    /\ CURRENT_DIR = resolve(ROOT)
    /\ res = Result(TRUE, NoMsg, NoMsg)
    /\ hist = <<>>
    /\ spawned = <<>>
    /\ req = [w \in Workers |-> IdleReq]
    /\ InitSupervisor

\* resolve the path string extended by one more segment
ResolveNext(g) ==
    /\ rp.n < MaxSegs
    /\ rp' = Call(IF rp.path_str = <<>> \/ rp.path_str = <<"/">>
                  THEN rp.path_str \o g
                  ELSE rp.path_str \o <<"/">> \o g,
                  rp.base_dir, rp.n + 1)
    /\ UNCHANGED <<fs, CURRENT_DIR, res, hist, spawned, req, procvars>>

NextResolve ==
    \E g \in {Names.dotdot, Names.dot, Names.a, Names.etc, Names.passwd, Names.sandbox2, Names.empty} :
        ResolveNext(g)

---------------------------------------------------------------------------
(* The supervisor on its own: requests that reached the native fallback    *)
(* run _spawn_and_wait concurrently with each other and with api_kill.     *)

InitProc ==
    /\ rp = IdleCall
    /\ fs = <<>>
    /\ CURRENT_DIR = resolve(ROOT)
    /\ res = Result(TRUE, NoMsg, NoMsg)
    /\ hist = <<>>
    /\ spawned = <<>>
    /\ req = [w \in Workers |-> IdleReq]
    /\ InitSupervisor

enginevars == <<rp, fs, CURRENT_DIR, res, hist, spawned, req>>

NextProc ==
    \/ \E w \in Workers : SpawnCall(w) /\ UNCHANGED enginevars
    \/ \E w \in Workers : Launch(w) /\ UNCHANGED enginevars
    \/ \E w \in Workers : LaunchFails(w) /\ UNCHANGED enginevars
    \/ \E p \in DOMAIN procs, rc \in {0, 1} : ProcessExits(p, rc) /\ UNCHANGED enginevars
    \/ \E w \in Workers : CommunicateReturns(w) /\ UNCHANGED enginevars
    \/ \E w \in Workers : TimeoutExpired(w) /\ UNCHANGED enginevars
    \/ \E w \in Workers : TimeoutKill(w) /\ UNCHANGED enginevars
    \/ \E w \in Workers : TimeoutReturns(w) /\ UNCHANGED enginevars
    \/ \E w \in Workers : Finally(w) /\ UNCHANGED enginevars
    \/ CancelNothing /\ UNCHANGED enginevars
    \/ \E obeyed \in BOOLEAN : CancelTerminate(obeyed) /\ UNCHANGED enginevars
    \/ CancelKill /\ UNCHANGED enginevars

---------------------------------------------------------------------------
(* Text written and read back: write, append, read and cd only.            *)

\* the command lines tried; cat and type have no branch of their own in
\* run_whitelisted_command
TextLines ==
    LET TextPaths == {Paths.f, Paths.af, Paths.bg, Paths.a}
    IN  [ write |-> {<<Verbs.write, Paths.f>>}
                    \cup {<<Verbs.write, p>> \o t :
                            p \in TextPaths,
                            t \in {<<Words.h, Words.w>>, <<Words.cr>>, <<Words.crlf, Words.w>>,
                                   <<Names.empty>>}},
          append |-> {<<Verbs.append, Paths.f, Words.w>>, <<Verbs.append, Paths.bg, Words.cr>>},
          read |-> {<<Verbs.read>>} \cup {<<Verbs.read, p>> : p \in TextPaths \cup {Paths.g}},
          cd |-> {<<Verbs.cd, Paths.a>>, <<Verbs.cd>>},
          native |-> {<<v, p>> : v \in {Verbs.cat, Verbs.type}, p \in {Paths.f, Paths.g}},
          lines |-> {<<Verbs.write, Paths.f, t>> :
                       t \in {Words.three, Words.two, Words.blank, Names.empty, Words.cr}},
          tail |-> {<<Verbs.tail>>, <<Verbs.tail, Paths.f>>, <<Verbs.tail, Words.n>>,
                    <<Verbs.tail, Words.n, <<"1">>, Paths.g>>,
                    <<Verbs.tail, Words.n, <<"1">>, Paths.a>>,
                    <<Verbs.tail, Words.n, <<"1">>>>}
                   \cup {<<Verbs.tail, Words.n, t, Paths.f>> :
                           t \in {<<"0">>, <<"1">>, <<"2">>, <<"3">>, <<"1", "0">>, <<"-", "1">>,
                                  <<"+", "2">>, <<"x">>, <<>>}} ]

NextText ==
    \/ \E parts \in TextLines.write : Write(parts)
    \/ \E parts \in TextLines.append : AppendTo(parts)
    \/ \E parts \in TextLines.read : Read(parts)
    \/ \E parts \in TextLines.cd : Cd(parts)
    \/ \E parts \in TextLines.native, r \in NativeResults : Native(parts, r)

\* files of several lines are written and their last lines are asked for
Tail_(parts) == Builtin(parts, Verbs.tail, cmd_tail(parts, fs, CURRENT_DIR))

NextTail ==
    \/ \E parts \in TextLines.lines : Write(parts)
    \/ \E parts \in TextLines.tail : Tail_(parts)

---------------------------------------------------------------------------
(* Native commands whose processes write long outputs.                     *)

\* what the processes return: Output(n) is an output of n characters, and
\* OutputCases gives exit code, stdout length and stderr length, with lengths at
\* the ceiling, over it and under it, on either stream
OutputResults ==
    LET Output(n) == [i \in 1..n |-> IF i % 2 = 1 THEN "a" ELSE "b"]
        OutputCases ==
            { <<0, 0, 0>>, <<0, 2, MAX_OUTPUT_CHARS>>, <<1, MAX_OUTPUT_CHARS, 2>>,
              <<0, MAX_OUTPUT_CHARS + 1, MAX_OUTPUT_CHARS>>,
              <<1, MAX_OUTPUT_CHARS, MAX_OUTPUT_CHARS + 1>>,
              <<0, MAX_OUTPUT_CHARS + 3, 0>>, <<1, 0, MAX_OUTPUT_CHARS + 3>>,
              <<1, MAX_OUTPUT_CHARS + 1, MAX_OUTPUT_CHARS + 3>> }
    IN  {spawn_result(c[1], Text(Output(c[2])), Text(Output(c[3]))) : c \in OutputCases}
        \cup {launch_failed}

NextOutput == \E r \in OutputResults : Native(<<Verbs.echo, Words.h>>, r)

---------------------------------------------------------------------------
(* Requests served concurrently.  The server runs each request in a thread *)
(* of its own; an rm holds no lock, so every system call of               *)
(* _move_to_trash is a step that the steps of another request can         *)
(* separate from the next.                                                 *)

\* the request of worker w moves on
Step(w, r) == req' = [req EXCEPT ![w] = r]

\* a request returns the dictionary d
Return(w, d) == Step(w, [req[w] EXCEPT !.at = "done", !.res = d])

\* app.py:515 with the one line of a one-target rm
OneLine(line) == [Result(TRUE, Msg("<lines>", <<>>), NoMsg) EXCEPT !.lines = <<line>>]

racevars == <<rp, res, hist, procvars>>

\* what the concurrent requests ask for: `rm f.txt` and `rm a/f.txt` are two files
\* with one basename; the others take their paths relative to the working directory
RaceLines ==
    [ rm |-> {<<Verbs.rm, Paths.f>>, <<Verbs.rm, Paths.af>>},
      dir |-> {<<Verbs.cd, Paths.a>>, <<Verbs.cd, Paths.up>>, <<Verbs.cd, Paths.g>>,
               <<Verbs.mv, Paths.f, Paths.g>>, <<Verbs.mv, Paths.f>>,
               <<Verbs.cp, Paths.f, Paths.g>>, <<Verbs.cp, Paths.g, Paths.f>>,
               <<Verbs.LS, Paths.f, Paths.dot>>, <<Verbs.echo, Words.h>>} ]

\* app.py:376-395: the request arrives and is dispatched on its verb
Arrive(w, parts) ==
    /\ req[w].at = "idle"
    /\ Step(w, [req[w] EXCEPT !.parts = parts,
                              !.at = CASE base_of(parts) = Verbs.rm -> "rm_resolve"
                                       [] base_of(parts) = Verbs.cd -> "cd_lock"
                                       [] base_of(parts) \in {Verbs.mv, Verbs.cp} -> "src"
                                       [] OTHER -> "native_token"])
    /\ UNCHANGED <<fs, CURRENT_DIR, spawned, racevars>>

\* app.py:495: the target is resolved against the working directory
RmResolve(w) ==
    /\ req[w].at = "rm_resolve"
    /\ Step(w, [req[w] EXCEPT !.at = "rm_exists",
                              !.tgt = safe_path(req[w].parts[2], CURRENT_DIR),
                              !.bases = Append(@, CURRENT_DIR)])
    /\ UNCHANGED <<fs, CURRENT_DIR, spawned, racevars>>

\* app.py:496-499
RmExists(w) ==
    /\ req[w].at = "rm_exists"
    /\ IF ~ exists(fs, req[w].tgt)
       THEN Return(w, OneLine(Msg("not found", <<req[w].parts[2]>>)))
       ELSE IF dir_refused(fs, req[w].tgt, FALSE, FALSE)
       THEN Return(w, OneLine(Msg("is a directory", <<req[w].parts[2]>>)))
       ELSE Step(w, [req[w] EXCEPT !.at = "trash_mkdir"])
    /\ UNCHANGED <<fs, CURRENT_DIR, spawned, racevars>>

\* app.py:168-171
TrashMkdir(w) ==
    /\ req[w].at = "trash_mkdir"
    /\ LET made == mkdir_exist_ok(fs, TRASH)
       IN  /\ fs' = made.fs
           /\ IF made.ok
              THEN Step(w, [req[w] EXCEPT !.at = "trash_probe", !.i = 0,
                                          !.dest = TRASH \o <<name_p(req[w].tgt)>>])
              ELSE Return(w, OneLine(Msg("failed to move to trash", <<req[w].parts[2]>>)))
    /\ UNCHANGED <<CURRENT_DIR, spawned, racevars>>

\* app.py:172-179: one dest.exists(), and the next name to try when it is taken
TrashProbe(w) ==
    /\ req[w].at = "trash_probe"
    /\ IF exists(fs, req[w].dest)
       THEN LET name == name_p(req[w].tgt)
                newname == stem(name) \o <<"_">> \o str_int(req[w].i + 1) \o suffix(name)
            IN  Step(w, [req[w] EXCEPT !.i = @ + 1, !.dest = TRASH \o <<newname>>])
       ELSE Step(w, [req[w] EXCEPT !.at = "trash_replace"])
    /\ UNCHANGED <<fs, CURRENT_DIR, spawned, racevars>>

\* app.py:180-184: target.replace(dest)
TrashReplace(w) ==
    /\ req[w].at = "trash_replace"
    /\ LET replaced == os_rename(fs, req[w].tgt, req[w].dest)
       IN  /\ fs' = replaced.fs
           /\ IF replaced.ok
              THEN Return(w, OneLine(Msg("Moved to trash",
                                         <<name_p(req[w].tgt), name_p(req[w].dest)>>)))
              ELSE Step(w, [req[w] EXCEPT !.at = "trash_fallback"])
    /\ UNCHANGED <<CURRENT_DIR, spawned, racevars>>

\* app.py:185-190: shutil.move after replace raised
TrashFallback(w) ==
    /\ req[w].at = "trash_fallback"
    /\ LET moved == shutil_move(fs, req[w].tgt, req[w].dest)
       IN  /\ fs' = moved.fs
           /\ IF moved.ok
              THEN Return(w, OneLine(Msg("Moved to trash",
                                         <<name_p(req[w].tgt), name_p(req[w].dest)>>)))
              ELSE Return(w, OneLine(Msg("move to trash failed", <<name_p(req[w].tgt)>>)))
    /\ UNCHANGED <<CURRENT_DIR, spawned, racevars>>

NextTrash ==
    \/ \E w \in Workers, parts \in RaceLines.rm : Arrive(w, parts)
    \/ \E w \in Workers : RmResolve(w)
    \/ \E w \in Workers : RmExists(w)
    \/ \E w \in Workers : TrashMkdir(w)
    \/ \E w \in Workers : TrashProbe(w)
    \/ \E w \in Workers : TrashReplace(w)
    \/ \E w \in Workers : TrashFallback(w)

\* app.py:32, 401: _dir_lock is held by the cd that is inside its `with` block
_dir_lock == {w \in Workers : req[w].at = "cd_locked"}

\* app.py:401-402: cd takes the lock and resolves its target
CdEnter(w) ==
    /\ req[w].at = "cd_lock"
    /\ _dir_lock = {}
    /\ LET target == IF Len(req[w].parts) > 1 THEN req[w].parts[2] ELSE Names.dot
       IN  Step(w, [req[w] EXCEPT !.at = "cd_locked",
                                  !.tgt = safe_path(target, CURRENT_DIR),
                                  !.bases = Append(@, CURRENT_DIR)])
    /\ UNCHANGED <<fs, CURRENT_DIR, spawned, racevars>>

\* app.py:403-407: the test, the assignment and the release of the lock
CdLeave(w) ==
    /\ req[w].at = "cd_locked"
    /\ LET newp == req[w].tgt
       IN  IF exists(fs, newp) /\ is_dir(fs, newp)
           THEN /\ CURRENT_DIR' = newp
                /\ Return(w, Done("<cwd>", <<PathStr(newp)>>))
           ELSE /\ CURRENT_DIR' = CURRENT_DIR
                /\ Return(w, Fail("Directory not found", <<PathStr(newp)>>))
    /\ UNCHANGED <<fs, spawned, racevars>>

\* app.py:519, 530-536: the path arguments of a mv or a cp
path_args(parts) ==
    IF base_of(parts) = Verbs.cp
    THEN SelectSeq(Tail(parts), LAMBDA a : a # Words.r)
    ELSE Tail(parts)

\* app.py:519-521, 536-538: the argument count, and src resolved
MvCpSrc(w) ==
    /\ req[w].at = "src"
    /\ IF Len(path_args(req[w].parts)) < 2
       THEN Return(w, IF base_of(req[w].parts) = Verbs.mv
                      THEN Fail("mv requires source and destination", <<>>)
                      ELSE Fail("cp requires source and destination", <<>>))
       ELSE Step(w, [req[w] EXCEPT !.at = "dest",
                                   !.tgt = safe_path(path_args(req[w].parts)[1], CURRENT_DIR),
                                   !.bases = Append(@, CURRENT_DIR)])
    /\ UNCHANGED <<fs, CURRENT_DIR, spawned, racevars>>

\* app.py:522, 539: dest resolved
MvCpDest(w) ==
    /\ req[w].at = "dest"
    /\ Step(w, [req[w] EXCEPT !.at = "src_exists",
                              !.dest = safe_path(path_args(req[w].parts)[2], CURRENT_DIR),
                              !.bases = Append(@, CURRENT_DIR)])
    /\ UNCHANGED <<fs, CURRENT_DIR, spawned, racevars>>

\* app.py:523-524, 540-541
MvCpExists(w) ==
    /\ req[w].at = "src_exists"
    /\ IF exists(fs, req[w].tgt)
       THEN Step(w, [req[w] EXCEPT !.at = "perform"])
       ELSE Return(w, Fail("Source not found", <<path_args(req[w].parts)[1]>>))
    /\ UNCHANGED <<fs, CURRENT_DIR, spawned, racevars>>

\* app.py:525-526, 541-542: _safe_mv or _safe_cp with the two paths resolved before
MvCpPerform(w) ==
    /\ req[w].at = "perform"
    /\ LET recursive == \E k \in 2..Len(req[w].parts) : req[w].parts[k] = Words.r
           did == IF base_of(req[w].parts) = Verbs.mv
                  THEN _safe_mv(fs, req[w].tgt, req[w].dest)
                  ELSE _safe_cp(fs, req[w].tgt, req[w].dest, recursive)
       IN  /\ fs' = did.fs
           /\ Return(w, Result(TRUE, did.msg, NoMsg))
    /\ UNCHANGED <<CURRENT_DIR, spawned, racevars>>

\* app.py:762-769: one turn of the loop over the tokens
NativeToken(w) ==
    /\ req[w].at = "native_token"
    /\ Len(req[w].argv) < Len(req[w].parts)
    /\ LET p == req[w].parts[Len(req[w].argv) + 1]
       IN  IF is_pathlike(p)
           THEN Step(w, [req[w] EXCEPT !.argv = Append(@, PathStr(safe_path(p, CURRENT_DIR))),
                                       !.bases = Append(@, CURRENT_DIR)])
           ELSE Step(w, [req[w] EXCEPT !.argv = Append(@, p)])
    /\ UNCHANGED <<fs, CURRENT_DIR, spawned, racevars>>

\* app.py:776-781: the process is run in the working directory of this moment
NativeSpawn(w, r) ==
    /\ req[w].at = "native_token"
    /\ Len(req[w].argv) = Len(req[w].parts)
    /\ spawned' = Append(spawned, [args |-> req[w].argv, cwd |-> CURRENT_DIR, returned |-> r])
    /\ Step(w, [req[w] EXCEPT !.at = "done", !.res = native_result(r),
                              !.bases = Append(@, CURRENT_DIR)])
    /\ UNCHANGED <<fs, CURRENT_DIR, racevars>>

NextDir ==
    \/ \E w \in Workers, parts \in RaceLines.dir : Arrive(w, parts)
    \/ \E w \in Workers : CdEnter(w)
    \/ \E w \in Workers : CdLeave(w)
    \/ \E w \in Workers : MvCpSrc(w)
    \/ \E w \in Workers : MvCpDest(w)
    \/ \E w \in Workers : MvCpExists(w)
    \/ \E w \in Workers : MvCpPerform(w)
    \/ \E w \in Workers : NativeToken(w)
    \/ \E w \in Workers, r \in NativeResults : NativeSpawn(w, r)

vars == <<rp, fs, CURRENT_DIR, res, hist, spawned, req, procvars>>

Spec == Init /\ [][Next]_vars

SpecProc == InitProc /\ [][NextProc]_vars

\* Every thread keeps running.  A step that takes PROCESS_LOCK (app.py:197, 204,
\* 216) is taken if the lock is free again and again; communicate (app.py:201,
\* 210) returns or times out, and the sleep of api_kill (app.py:799) ends.
FairProc ==
    /\ \A w \in Workers :
          /\ SF_vars((Launch(w) \/ LaunchFails(w)) /\ UNCHANGED enginevars)
          /\ WF_vars((CommunicateReturns(w) \/ TimeoutExpired(w)) /\ UNCHANGED enginevars)
          /\ SF_vars(TimeoutKill(w) /\ UNCHANGED enginevars)
          /\ WF_vars(TimeoutReturns(w) /\ UNCHANGED enginevars)
          /\ SF_vars(Finally(w) /\ UNCHANGED enginevars)
    /\ WF_vars(CancelKill /\ UNCHANGED enginevars)

SpecProcLive == SpecProc /\ FairProc

SpecText == Init /\ [][NextText]_vars

SpecTail == Init /\ [][NextTail]_vars

SpecOutput == Init /\ [][NextOutput]_vars

SpecTrash == Init /\ [][NextTrash]_vars

SpecDir == Init /\ [][NextDir]_vars

SpecResolve == InitResolve /\ [][NextResolve]_vars

---------------------------------------------------------------------------
(* Properties. *)

\* the last command run and the state it started from
Last == hist[Len(hist)]
Ran == Len(hist) > 0

\* the tree the k-th command left
TreeAfter(k) == IF k = Len(hist) THEN fs ELSE hist[k + 1].fs

\* what lies at p and below it, by the path relative to p
Subtree(f, p) ==
    [r \in {SubSeq(q, Len(p) + 1, Len(q)) : q \in Under(f, p)} |-> f[p \o r]]

\* the part of the tree that is neither SandboxRoot nor below it
OutsideSandbox(f) == [q \in {q \in DOMAIN f : ~ InSandbox(q)} |-> f[q]]

\* C1: every path safe_path returns, for any path string and a base directory
\* inside SandboxRoot, is SandboxRoot or a descendant of it.
C1_ResolveConfined == InSandbox(rp.base_dir) => InSandbox(rp.out)

\* C2: no built-in command creates, modifies, moves or deletes an entry outside
\* SandboxRoot.
C2_NoEffectOutside ==
    (Ran /\ Len(spawned) = Last.spawned) => OutsideSandbox(fs) = OutsideSandbox(Last.fs)

\* C3: WorkingDirectory is always SandboxRoot or a descendant of it.
C3_CwdInSandbox == InSandbox(CURRENT_DIR)

\* C4: WorkingDirectory always names an existing directory.
C4_CwdExists == is_dir(fs, CURRENT_DIR)

\* a command line whose lower-cased first token is not in the allow-set
NotAllowedLine(parts) == Len(parts) > 0 /\ lower(parts[1]) \notin WHITELIST

\* C5: a command line whose lower-cased first token is not in the allow-set returns
\* ok=false with stderr "Command '<base>' not allowed.", spawns no process and
\* leaves the working directory, the process slot and the tree (the trash
\* included) as they were.
C5_NotAllowed ==
    (Ran /\ NotAllowedLine(Last.cmd)) =>
        /\ res.ok = FALSE
        /\ res.stderr = Msg("Command '<base>' not allowed.", <<lower(Last.cmd[1])>>)
        /\ res.stdout = NoMsg
        /\ Len(spawned) = Last.spawned
        /\ fs = Last.fs
        /\ CURRENT_DIR = Last.cwd
        /\ CURRENT_PROCESS = None

\* a refused mixed-case verb, after an earlier command that changed the tree
C5_Witness ==
    /\ Len(hist) = 2
    /\ Last.cmd = <<Verbs.Bash>>
    /\ res.ok = FALSE
    /\ hist[2].fs # hist[1].fs

\* every thread serving a command request is outside _spawn_and_wait
NoSpawnInProgress == \A w \in Workers : pc[w] = "idle"

\* C6: a cancel call made while a native process is still running finds a tracked
\* handle, returns ok=true and leaves that process terminated, in every
\* interleaving of the command requests and the cancel call.
C6_CancelTerminatesRunning ==
    (cancel.called /\ cancel.done /\ cancel.running # {}) =>
        /\ cancel.ok
        /\ \A p \in cancel.running : ~ procs[p].alive

\* C7: while no spawn call is in progress the process slot is empty, and a cancel
\* call made then returns ok=false and signals no process; every spawn call that
\* has returned, by whichever path, left the slot empty.
C7_IdleSlotEmpty ==
    /\ NoSpawnInProgress => CURRENT_PROCESS = None
    /\ (cancel.called /\ ~ cancel.busy) =>
           /\ cancel.done
           /\ cancel.ok = FALSE
           /\ cancel.signalled = {}
    /\ \A w \in Workers :
           (pc[w] = "idle" /\ ret[w].path \in {"exit", "timeout", "raised"}) =>
               ret[w].slot = None

\* the two requests have returned, one after a timeout and one after a failed
\* launch, and the cancel call made after them found nothing
C7_Witness ==
    /\ NoSpawnInProgress
    /\ {ret[w].path : w \in Workers} = {"timeout", "raised"}
    /\ cancel.called /\ cancel.done /\ ~ cancel.busy /\ ~ cancel.ok
    /\ Len(procs) = MaxSpawns
    /\ \E p \in DOMAIN procs : procs[p].rc = 1

\* C8: once the timeout has expired on a process still running, the process is
\* killed, and the spawn call returns rc=-1 and ok=false.
C8_TimeoutKills ==
    \A w \in Workers :
        /\ pc[w] = "salvage" => ~ procs[proc[w]].alive
        /\ ret[w].path = "timeout" =>
               /\ ret[w].rc = <<-1>>
               /\ ret[w].ok = FALSE
               /\ ~ procs[ret[w].pid].alive

\* a request has returned after the timeout killed its process, no cancel call
\* having been made
C8_Witness ==
    /\ ~ cancel.called
    /\ \E w \in Workers :
           /\ pc[w] = "idle"
           /\ ret[w].path = "timeout"
           /\ procs[ret[w].pid].rc = 0 - SIGKILL

\* the names of the entries of the trash
TrashNames(f) == {q[Len(q)] : q \in {q \in DOMAIN f : parent(q) = TRASH}}

\* an rm command line without --permanent / --perma
NonPermanentRm(parts) ==
    /\ Len(parts) > 0
    /\ lower(parts[1]) = Verbs.rm
    /\ \A i \in 2..Len(parts) : parts[i] \notin PermanentFlags

\* the i-th target of the last command, resolved as the command resolved it
LastTarget(i) == safe_path(rm_targets(Last.cmd)[i], Last.cwd)

\* the output lines of the last rm that report a move to the trash
MovedLines == {i \in DOMAIN res.lines : res.lines[i].id = "Moved to trash"}

\* C9: a non-permanent rm puts every target it trashes into a trash entry of its
\* own, named by a name that was free (or that an earlier target of the same rm
\* had just left), and holding what the target held; whatever the trash held
\* before is still where it was and unchanged, unless the rm targeted it inside
\* the trash, and then it is unchanged in the new entry.
\* Two successive rm of files named f.txt, into a trash holding neither name,
\* leave the entries f.txt and f_1.txt.
C9_TrashKeepsEntries ==
    (Ran /\ NonPermanentRm(Last.cmd)) =>
        /\ \A i \in MovedLines :
              LET entry == res.lines[i].args[2]
              IN  /\ \/ entry \notin TrashNames(Last.fs)
                     \/ \E j \in MovedLines : j < i /\ LastTarget(j) = TRASH \o <<entry>>
                  /\ entry \in TrashNames(fs)
                  /\ Subtree(fs, TRASH \o <<entry>>) = Subtree(Last.fs, LastTarget(i))
                  /\ \A j \in MovedLines : j # i => res.lines[j].args[2] # entry
        /\ \A q \in Under(Last.fs, TRASH) \ {TRASH} :
              \/ /\ q \in DOMAIN fs
                 /\ fs[q] = Last.fs[q]
              \/ \E i \in MovedLines :
                    LET kept == Rebase(q, LastTarget(i), TRASH \o <<res.lines[i].args[2]>>)
                    IN  /\ IsUnder(q, LastTarget(i))
                        /\ kept \in DOMAIN fs
                        /\ fs[kept] = Last.fs[q]
        /\ ( /\ Len(hist) = 2
             /\ hist[1].cmd = <<Verbs.rm, Paths.f>> /\ hist[2].cmd = <<Verbs.rm, Paths.af>>
             /\ TrashNames(hist[1].fs) \cap {Names.ftxt, Names.f1txt} = {} )
           => /\ TrashNames(fs) = TrashNames(hist[1].fs) \cup {Names.ftxt, Names.f1txt}
              /\ fs[TRASH \o <<Names.ftxt>>] = hist[1].fs[ROOT \o <<Names.ftxt>>]
              /\ fs[TRASH \o <<Names.f1txt>>] = hist[1].fs[ROOT \o <<Names.a, Names.ftxt>>]

\* f.txt and a/f.txt went one after the other into a trash that was not there
C9_Witness ==
    /\ Len(hist) = 2
    /\ hist[1].cmd = <<Verbs.rm, Paths.f>>
    /\ hist[2].cmd = <<Verbs.rm, Paths.af>>
    /\ ~ exists(hist[1].fs, TRASH)
    /\ res.lines = <<Msg("Moved to trash", <<Names.ftxt, Names.f1txt>>)>>
    /\ TrashNames(fs) = {Names.ftxt, Names.f1txt}

\* a name without separators that is not ".." or "."
PlainName(n) == PathParts(n) = <<n>> /\ n # Names.dotdot

\* the last two commands were `rm n` and `restore n` (`rm -r n` when dir) for an
\* entry n of the working directory that was a file (a directory when dir)
RmThenRestore(n, dir) ==
    /\ Len(hist) >= 2
    /\ PlainName(n)
    /\ hist[Len(hist) - 1].cmd = (IF dir THEN <<Verbs.rm, Words.r, n>> ELSE <<Verbs.rm, n>>)
    /\ Last.cmd = <<Verbs.restore, n>>
    /\ LET before == hist[Len(hist) - 1]
       IN  IF dir THEN is_dir(before.fs, before.cwd \o <<n>>)
           ELSE is_file(before.fs, before.cwd \o <<n>>)

\* what the working directory held under n before the rm is what it holds now
SameAsBeforeRm(n) ==
    LET before == hist[Len(hist) - 1]
    IN  /\ exists(fs, CURRENT_DIR \o <<n>>)
        /\ Subtree(fs, CURRENT_DIR \o <<n>>) = Subtree(before.fs, before.cwd \o <<n>>)

RoundTripNames == {Names.ftxt, Names.f1txt, Names.a, Names.g}

\* C10 as stated: whatever the trash held, `rm f` then `restore f` leaves f with the
\* content it had before the rm (and `rm -r d` then `restore d` leaves d).
C10_RoundTripAnyTrash ==
    \A n \in RoundTripNames, dir \in BOOLEAN :
        RmThenRestore(n, dir) => SameAsBeforeRm(n)

\* C10 amended: when the trash holds no entry named f before the rm, `rm f` then
\* `restore f` leaves f with the content it had before the rm (and `rm -r d` then
\* `restore d` leaves d).
C10_RoundTrip ==
    \A n \in RoundTripNames, dir \in BOOLEAN :
        (RmThenRestore(n, dir) /\ n \notin TrashNames(hist[Len(hist) - 1].fs))
            => SameAsBeforeRm(n)

\* the directory a went to the trash and came back with its file
C10_Witness ==
    /\ RmThenRestore(Names.a, TRUE)
    /\ Names.a \notin TrashNames(hist[Len(hist) - 1].fs)
    /\ Names.a \in TrashNames(Last.fs)
    /\ res.stdout = Msg("Restored", <<Names.a, Names.a>>)
    /\ is_file(fs, CURRENT_DIR \o <<Names.a, Names.ftxt>>)

\* the last command was `rm d`, no flag given, for a d that resolved to an existing
\* directory
RmPlainDir ==
    /\ Ran
    /\ Len(Last.cmd) = 2
    /\ lower(Last.cmd[1]) = Verbs.rm
    /\ rm_targets(Last.cmd) = <<Last.cmd[2]>>
    /\ is_dir(Last.fs, LastTarget(1))

\* C11 as stated: `rm d` on an existing directory d, without -r and without
\* --permanent, returns ok=false and leaves d and the trash unchanged.
C11_RmDirNotOk == RmPlainDir => (res.ok = FALSE /\ fs = Last.fs)

\* C11 amended: `rm d` on an existing directory d, without -r and without
\* --permanent, returns ok=true with the one stdout line "d: is a directory (use
\* -r or --permanent --yes-i-know)" and an empty stderr, and leaves d, the trash
\* and the rest of the tree unchanged.
C11_RmDirRefused ==
    RmPlainDir =>
        /\ res.ok = TRUE
        /\ res.lines = <<Msg("is a directory", <<Last.cmd[2]>>)>>
        /\ res.stderr = NoMsg
        /\ fs = Last.fs
        /\ CURRENT_DIR = Last.cwd

\* `rm a` on the directory a, the trash holding entries of earlier runs
C11_Witness ==
    /\ RmPlainDir
    /\ Last.cmd = <<Verbs.rm, Paths.a>>
    /\ LastTarget(1) = ROOT \o <<Names.a>>
    /\ TrashNames(Last.fs) # {}
    /\ is_file(fs, ROOT \o <<Names.a, Names.ftxt>>)

\* an rm command line with --permanent (or --perma) and without --yes-i-know
UnconfirmedPermanentRm(parts) ==
    /\ Len(parts) > 0
    /\ lower(parts[1]) = Verbs.rm
    /\ \E i \in 2..Len(parts) : parts[i] \in PermanentFlags
    /\ \A i \in 2..Len(parts) : parts[i] # Words.yes

\* C12: an rm that carries --permanent but not --yes-i-know returns ok=false and
\* neither deletes nor moves anything, whatever its targets are.
C12_PermanentRejected ==
    (Ran /\ UnconfirmedPermanentRm(Last.cmd)) => (res.ok = FALSE /\ fs = Last.fs)

\* the path the last command, a cd, resolved
CdTarget == safe_path(IF Len(Last.cmd) > 1 THEN Last.cmd[2] ELSE Names.dot, Last.cwd)

\* the last command was a cd whose resolved path was missing or no directory
CdNowhere ==
    /\ Ran
    /\ Len(Last.cmd) > 0
    /\ lower(Last.cmd[1]) = Verbs.cd
    /\ ~ is_dir(Last.fs, CdTarget)

\* C13: a cd whose resolved path does not exist or is not a directory returns
\* ok=false with "Directory not found: <path>" and leaves the working directory
\* (and the tree) exactly as it was.
C13_CdNotFound ==
    CdNowhere =>
        /\ res.ok = FALSE
        /\ res.stderr = Msg("Directory not found", <<PathStr(CdTarget)>>)
        /\ CURRENT_DIR = Last.cwd
        /\ fs = Last.fs

\* after `cd a`, `cd f.txt` names the file a/f.txt and is refused
C13_Witness ==
    /\ Len(hist) = 2
    /\ hist[1].cmd = <<Verbs.cd, Paths.a>>
    /\ hist[2].cmd = <<Verbs.cd, Paths.f>>
    /\ is_file(fs, ROOT \o <<Names.a, Names.ftxt>>)
    /\ CdNowhere
    /\ CURRENT_DIR = ROOT \o <<Names.a>>
    /\ res.ok = FALSE

\* the command before the last
Prev == hist[Len(hist) - 1]

\* the last two commands were a `write p t1 ... tn` that returned ok=true and a
\* `read p`
WroteThenRead ==
    /\ Len(hist) >= 2
    /\ Len(Prev.cmd) >= 3
    /\ lower(Prev.cmd[1]) = Verbs.write
    /\ cmd_write(Prev.cmd, Prev.fs, Prev.cwd).res.ok
    /\ Len(Last.cmd) = 2
    /\ lower(Last.cmd[1]) = Verbs.read
    /\ Last.cmd[2] = Prev.cmd[2]

\* C14: when `write p t1 ... tn` returned ok=true, the `read p` that follows it
\* returns ok=true with stdout exactly t1 ... tn joined by single spaces.
C14_WriteThenRead ==
    WroteThenRead =>
        /\ res.ok = TRUE
        /\ res.stdout = Msg("<text>", <<join_space(SubSeq(Prev.cmd, 3, Len(Prev.cmd)))>>)

\* the last command went to the native fallback and its process was launched
RanNative ==
    /\ Ran
    /\ Len(spawned) > Last.spawned
    /\ spawned[Len(spawned)].returned # launch_failed

\* the text is returned as the claim says of an output with this marker
Truncated(raw, shown, marker) ==
    /\ Len(raw) <= MAX_OUTPUT_CHARS => shown = raw
    /\ Len(raw) > MAX_OUTPUT_CHARS =>
           /\ shown = SubSeq(raw, 1, MAX_OUTPUT_CHARS) \o marker
           /\ Len(shown) = MAX_OUTPUT_CHARS + Len(marker)

\* C15: the native fallback returns stdout and stderr each unchanged when it is at
\* most MAX_OUTPUT_CHARS long, and otherwise as its first MAX_OUTPUT_CHARS
\* characters followed by its marker; the one does not depend on the other.
C15_Truncation ==
    RanNative =>
        LET raw == spawned[Len(spawned)].returned
        IN  /\ Truncated(text_of(raw.stdout), text_of(res.stdout), Markers.stdout)
            /\ Truncated(text_of(raw.stderr), text_of(res.stderr), Markers.stderr)
            /\ res.ok = raw.ok
            /\ res.rc = raw.rc

\* a stdout one character over the ceiling was cut while a stderr of exactly the
\* ceiling was not
C15_Witness ==
    /\ RanNative
    /\ Len(text_of(spawned[Len(spawned)].returned.stdout)) = MAX_OUTPUT_CHARS + 1
    /\ Len(text_of(spawned[Len(spawned)].returned.stderr)) = MAX_OUTPUT_CHARS
    /\ Len(text_of(res.stdout)) = MAX_OUTPUT_CHARS + 19
    /\ Len(text_of(res.stderr)) = MAX_OUTPUT_CHARS

\* C17: cat, type and read are one command: whichever of the three verbs a command
\* line uses, it spawns no process and returns what the file-read handling of
\* read returns for the same argument and tree.
C17_ReadAliases ==
    (Ran /\ Len(Last.cmd) > 0 /\ lower(Last.cmd[1]) \in {Verbs.cat, Verbs.type, Verbs.read}) =>
        /\ Len(spawned) = Last.spawned
        /\ res = cmd_read(<<Verbs.read>> \o Tail(Last.cmd), Last.fs, Last.cwd).res

\* the messages by which _safe_mv and _safe_cp report that nothing was moved or
\* copied (app.py:232, 239, 246, 256)
NotPerformedMsgs ==
    {"Move failed", "Copy failed", "Source is a directory; use cp -r",
     "Destination already exists"}

\* the last command was a mv or a cp whose helper reported that it did not move
\* or copy
MvCpNotPerformed ==
    /\ Ran
    /\ Len(Last.cmd) > 0
    /\ lower(Last.cmd[1]) \in {Verbs.mv, Verbs.cp}
    /\ (res.stdout.id \in NotPerformedMsgs \/ res.stderr.id \in NotPerformedMsgs)

\* C16: whenever mv or cp does not perform the requested move or copy (directory
\* source without -r, destination already exists, or a failure reported by the
\* filesystem), the command result has ok=false with the message in stderr.
C16_MvCpFailureNotOk ==
    MvCpNotPerformed =>
        /\ res.ok = FALSE
        /\ res.stderr.id \in NotPerformedMsgs
        /\ res.stdout = NoMsg

\* the flags of the last rm, in the order typed
LastRmFlags == SelectSeq(Tail(Last.cmd), LAMBDA tok : tok \in RecursiveFlags \cup {Words.yes})

\* the i-th target of the last rm, as typed
LastRmToken(i) == rm_targets(Last.cmd)[i]

\* what the first k targets of the last rm leave when each is given to an rm of
\* its own, one after the other, with the flags of the last rm
RECURSIVE RmOneByOne(_)
RmOneByOne(k) ==
    IF k = 0 THEN [fs |-> Last.fs, lines |-> <<>>]
    ELSE LET before == RmOneByOne(k - 1)
             one == cmd_rm(<<Verbs.rm>> \o LastRmFlags \o <<LastRmToken(k)>>, before.fs, Last.cwd)
         IN  [fs |-> one.fs, lines |-> before.lines \o one.res.lines]

\* the last command was an rm without --permanent and with at least one target
RmBatch ==
    /\ Ran
    /\ NonPermanentRm(Last.cmd)
    /\ rm_targets(Last.cmd) # <<>>

\* C18: an rm without --permanent and with at least one target handles every
\* target independently: the result is ok=true with one stdout line per target, in
\* the order of the targets; the lines and the tree are those that one rm per
\* target would have left; a target that is missing gets the line "not found", a
\* directory without -r the line "is a directory", and a target that exists is
\* moved to the trash whatever happened to the targets before it (or, when the
\* move fails, is left as it was with a line that says so).
C18_RmBatchIndependent ==
    RmBatch =>
        LET n == Len(rm_targets(Last.cmd))
        IN  /\ res.ok = TRUE
            /\ res.stderr = NoMsg
            /\ Len(res.lines) = n
            /\ res.lines = RmOneByOne(n).lines
            /\ fs = RmOneByOne(n).fs
            /\ \A i \in 1..n :
                  LET before == RmOneByOne(i - 1).fs
                      tgt == LastTarget(i)
                      recursive == \E j \in DOMAIN LastRmFlags : LastRmFlags[j] \in RecursiveFlags
                  IN  /\ ~ exists(before, tgt) => res.lines[i] = Msg("not found", <<LastRmToken(i)>>)
                      /\ (is_dir(before, tgt) /\ ~ recursive) =>
                             res.lines[i] = Msg("is a directory", <<LastRmToken(i)>>)
                      /\ (exists(before, tgt) /\ (is_dir(before, tgt) => recursive)) =>
                             \/ res.lines[i].id = "Moved to trash"
                                  /\ ~ exists(RmOneByOne(i).fs, tgt)
                             \/ res.lines[i].id \in {"failed to move to trash", "move to trash failed"}
                                  /\ \A q \in Under(before, tgt) :
                                        q \in DOMAIN RmOneByOne(i).fs /\ RmOneByOne(i).fs[q] = before[q]

\* `rm g f.txt` with g missing and f.txt a file: the first line is "g: not found",
\* the second reports the move, and f.txt is in the trash
C18_Witness ==
    /\ RmBatch
    /\ Last.cmd = <<Verbs.rm, Paths.g, Paths.f>>
    /\ res.ok = TRUE
    /\ Len(res.lines) = 2
    /\ res.lines[1] = Msg("not found", <<Paths.g>>)
    /\ res.lines[2].id = "Moved to trash"
    /\ exists(Last.fs, LastTarget(2))
    /\ ~ exists(fs, LastTarget(2))
    /\ TrashNames(fs) \ TrashNames(Last.fs) # {}

\* worker w ran `rm` on a file and reported the move to the trash
Trashed(w) ==
    /\ req[w].at = "done"
    /\ Len(req[w].res.lines) = 1
    /\ req[w].res.lines[1].id = "Moved to trash"

\* what the file at p held before any request ran
InitialData(p) == Tree(BaseEntries)[p].data

\* C19: when two rm commands for two different files that have the same basename
\* run concurrently, in every interleaving both files end up as two distinct
\* trash entries and neither file's content is overwritten or lost.
C19_ConcurrentRmKeepsBoth ==
    \A w1, w2 \in Workers :
        ( /\ w1 # w2
          /\ Trashed(w1)
          /\ Trashed(w2)
          /\ req[w1].tgt # req[w2].tgt
          /\ name_p(req[w1].tgt) = name_p(req[w2].tgt) ) =>
            /\ req[w1].dest # req[w2].dest
            /\ \A w \in {w1, w2} :
                  /\ is_file(fs, req[w].dest)
                  /\ fs[req[w].dest].data = InitialData(req[w].tgt)

\* C20: within one command execution, every path argument (both src and dest of
\* mv and cp, every token of a native-fallback command) and the native process's
\* working directory are resolved against one and the same WorkingDirectory
\* value, in every interleaving with a concurrent cd.
C20_OneWorkingDirectory ==
    \A w \in Workers :
        \A k \in DOMAIN req[w].bases : req[w].bases[k] = req[w].bases[1]

\* C21: every spawn call eventually returns (on process exit, on timeout or after
\* a cancel) and the process slot is eventually empty again; the process lock,
\* once taken, is released, so no interleaving of spawn calls and cancel calls
\* deadlocks on it.
C21_SpawnReturns ==
    /\ \A w \in Workers : (pc[w] # "idle") ~> (pc[w] = "idle")
    /\ (CURRENT_PROCESS # None) ~> (CURRENT_PROCESS = None)
    /\ (PROCESS_LOCK # None) ~> (PROCESS_LOCK = None)

\* two spawn calls have returned, one of them on the timeout path, a cancel call
\* has signalled a process in between, and the slot and the lock are free
C21_Witness ==
    /\ \A t \in Threads : pc[t] = "idle"
    /\ \A w \in Workers : ret[w].path # "none"
    /\ \E w \in Workers : ret[w].path = "timeout"
    /\ cancel.ok /\ cancel.signalled # {}
    /\ CURRENT_PROCESS = None
    /\ PROCESS_LOCK = None

\* the last command was a `restore <name>` that reported a move
RestoreMoved ==
    /\ Ran
    /\ Len(Last.cmd) = 2
    /\ lower(Last.cmd[1]) = Verbs.restore
    /\ res.stdout.id = "Restored"

\* C22: for every name argument (including names that contain path separators or
\* `..` segments), `restore <name>` moves only an entry that lies directly in the
\* trash area, and the restored entry is placed directly in WorkingDirectory; it
\* never moves an entry that is not in the trash and never places the result
\* outside WorkingDirectory.
C22_RestoreFromTrashToCwd ==
    RestoreMoved =>
        \E e \in DOMAIN Last.fs, d \in DOMAIN fs :
            /\ parent(e) = TRASH
            /\ parent(d) = Last.cwd
            /\ DOMAIN Last.fs \ DOMAIN fs = Under(Last.fs, e) \ Under(fs, d)
            /\ DOMAIN fs \ DOMAIN Last.fs = Under(fs, d) \ Under(Last.fs, e)
            /\ Subtree(fs, d) = Subtree(Last.fs, e)
            /\ \A q \in (DOMAIN fs \cap DOMAIN Last.fs) \ Under(fs, d) : fs[q] = Last.fs[q]

\* the last command was a `restore <name>` for a name that names nothing in the
\* trash
RestoreAbsent ==
    /\ Ran
    /\ Len(Last.cmd) = 2
    /\ lower(Last.cmd[1]) = Verbs.restore
    /\ PlainName(Last.cmd[2])
    /\ ~ exists(Last.fs, TRASH \o <<Last.cmd[2]>>)

\* C23: `restore <name>` for a name that is absent from the trash fails with
\* NotFound (a result with ok=false) and leaves the trash and WorkingDirectory
\* contents unchanged.
C23_RestoreAbsentFails ==
    RestoreAbsent => (res.ok = FALSE /\ fs = Last.fs)

\* the last command was `restore <name>` for a plain name that names an entry of
\* the trash and an entry of the working directory
RestoreCollision ==
    /\ Ran
    /\ Len(Last.cmd) = 2
    /\ lower(Last.cmd[1]) = Verbs.restore
    /\ PlainName(Last.cmd[2])
    /\ exists(Last.fs, TRASH \o <<Last.cmd[2]>>)
    /\ exists(Last.fs, Last.cwd \o <<Last.cmd[2]>>)

\* <stem>_restored_<k><suffix> in the working directory of the last command
RestoredAs(k) ==
    Last.cwd \o <<stem(Last.cmd[2]) \o Names.restored \o str_int(k) \o suffix(Last.cmd[2])>>

\* the restored entry is <stem>_restored_<n><suffix> for the smallest n >= 1 whose
\* name was free, the entry that had the name is as it was, and the trash entry
\* is gone
RestoredBeside ==
    \E k \in 1..(Cardinality(DOMAIN Last.fs) + 1) :
        /\ ~ exists(Last.fs, RestoredAs(k))
        /\ \A j \in 1..(k - 1) : exists(Last.fs, RestoredAs(j))
        /\ exists(fs, RestoredAs(k))
        /\ Subtree(fs, RestoredAs(k)) = Subtree(Last.fs, TRASH \o <<Last.cmd[2]>>)
        /\ exists(fs, Last.cwd \o <<Last.cmd[2]>>)
        /\ Subtree(fs, Last.cwd \o <<Last.cmd[2]>>) = Subtree(Last.fs, Last.cwd \o <<Last.cmd[2]>>)
        /\ ~ exists(fs, TRASH \o <<Last.cmd[2]>>)
        /\ res.stdout = Msg("Restored", <<Last.cmd[2], name_p(RestoredAs(k))>>)

\* C24 as stated: when WorkingDirectory already holds an entry with the restored
\* name, restore never overwrites or removes that entry: the restored entry is
\* created as <stem>_restored_<n><suffix> for the smallest n >= 1 whose name is
\* free, and the trash entry is removed.
C24_RestoreBesideAlways == RestoreCollision => RestoredBeside

\* C24 amended: when WorkingDirectory is not the trash directory itself and
\* already holds an entry with the restored name, restore (run without
\* concurrent commands) leaves that entry as it was: the restored entry is
\* created as <stem>_restored_<n><suffix> for the smallest n >= 1 whose name is
\* free, and the trash entry is removed.  (In the trash directory the entry with
\* the restored name is the trash entry, and restore renames it.)
C24_RestoreBeside == (RestoreCollision /\ Last.cwd # TRASH) => RestoredBeside

\* f.txt came back from the trash as f_restored_1.txt, next to the f.txt of the
\* working directory
C24_Witness ==
    /\ RestoreCollision
    /\ Last.cwd = ROOT
    /\ Last.cmd = <<Verbs.restore, Names.ftxt>>
    /\ RestoredBeside
    /\ is_file(fs, ROOT \o <<Names.ftxt>>)
    /\ is_file(fs, RestoredAs(1))
    /\ fs[RestoredAs(1)].data # fs[ROOT \o <<Names.ftxt>>].data

\* the last command was `cp -r src dest` for a directory src and an existing dest
CpDirOntoExisting ==
    /\ Ran
    /\ Last.cmd \in Lines.cp
    /\ Len(Last.cmd) = 4
    /\ Last.cmd[2] = Words.r
    /\ is_dir(Last.fs, safe_path(Last.cmd[3], Last.cwd))
    /\ exists(Last.fs, safe_path(Last.cmd[4], Last.cwd))

\* C25: `cp -r src dest` with a directory src and an already existing dest (file
\* or directory) is refused and changes nothing in the filesystem; a directory is
\* never copied into or merged with an existing destination.
C25_CpDirRefused ==
    CpDirOntoExisting =>
        /\ fs = Last.fs
        /\ "Destination already exists" \in {res.stdout.id, res.stderr.id}


\* the last command was `tail -n N <path>` with N >= 0 and a file at the path
TailOfFile ==
    /\ Ran
    /\ Len(Last.cmd) = 4
    /\ lower(Last.cmd[1]) = Verbs.tail
    /\ Last.cmd[2] = Words.n
    /\ int_of(Last.cmd[3]).ok
    /\ int_of(Last.cmd[3]).n >= 0
    /\ is_file(Last.fs, safe_path(Last.cmd[4], Last.cwd))

\* the last k of the lines, in order
LastLines(lines, k) ==
    LET m == IF k < Len(lines) THEN k ELSE Len(lines)
    IN  [j \in 1..m |-> lines[Len(lines) - m + j]]

\* C26: for every N >= 0 and every file with L lines, `tail -n N <path>` returns
\* exactly the last min(N, L) lines of the file in order; N = 0 returns no lines.
C26_TailLastLines ==
    TailOfFile =>
        /\ res.ok = TRUE
        /\ res.lines = LastLines(splitlines(read_text(Last.fs, safe_path(Last.cmd[4], Last.cwd))),
                                 int_of(Last.cmd[3]).n)

\* C26 for the numbers above zero, where it holds
C26_TailPositive ==
    (TailOfFile /\ int_of(Last.cmd[3]).n > 0) =>
        /\ res.ok = TRUE
        /\ res.lines = LastLines(splitlines(read_text(Last.fs, safe_path(Last.cmd[4], Last.cwd))),
                                 int_of(Last.cmd[3]).n)

\* C27: after any sequence of commands, rm with -r, --permanent and --yes-i-know
\* aimed at `.` or `..` included, the sandbox root is still a directory: no
\* command deletes or moves it.
C27_RootRemains == exists(fs, ROOT) /\ is_dir(fs, ROOT)

=============================================================================
